---- MODULE Spec2Model ----
(***************************************************************************)
(* Multi-tenant authorization core of atomic-crm: the api-gateway edge     *)
(* function (API-key validation, rate limiting, resource dispatch), the    *)
(* row-level policies and insert triggers of the tenant-scoped tables, and *)
(* the api-keys endpoint.                                                  *)
(*                                                                         *)
(* The database is one variable db, a function from table name to the set  *)
(* of rows of the table; a row is a function from column name to value.    *)
(* Every statement runs under a session context ctx (role, JWT subject,    *)
(* app.api_key_* session variables): the service role of supabaseAdmin     *)
(* bypasses the row-level policies, the authenticated role does not.       *)
(***************************************************************************)
EXTENDS Integers, FiniteSets, Sequences, TLC

VARIABLES
  db,            \* table name -> set of rows
  seq,           \* table name -> last id handed out by the table's sequence
  rateLimitMap,  \* key hash -> [count, resetAt]   (process-local Map)
  now,           \* Date.now(), in milliseconds
  request,       \* the request handled last
  response,      \* the answer it got
  creator,       \* <<table, id>> -> organization of the credential that inserted the row
  window,        \* key hash -> the requests of the key, counted by 60-second windows
  admitted,      \* key hash -> instant -> requests of the key admitted at that instant
  inflight       \* handlers and transactions that have begun and not ended, by number

vars == <<db, seq, rateLimitMap, now, request, response, creator, window, admitted, inflight>>

----------------------------------------------------------------------------
(* Values *)

\* SQL NULL / JS null of a bigint or timestamp column (ids and instants are positive)
NULL == 0
\* a session variable or text value that is not set (current_setting(..., true) gives NULL)
Unset == "<unset>"
\* auth.uid() of a request that carries no JWT subject
NoUid == <<>>
\* a NULL scopes column
NullScopes == {"<null>"}

\* the organizations of the model
MaxOrgs == 2
Orgs == 1..MaxOrgs

\* the rows one table may receive
MaxRows == 1

\* requests one key may make within one rate-limit window in the data-path specifications
MaxBurst == 1

\* handlers, or transactions, that may be under way at once
MaxTransactions == 2

\* the rows one table may receive in the specification of the session statements
MaxSqlRows == 1

RATE_LIMIT == 100
RATE_WINDOW == 60000

TenantTables ==
  {"contacts", "contact_notes", "companies", "deals", "deal_notes", "tasks", "tags"}

Tables == TenantTables \cup {"sales", "organizations", "api_keys", "auth.users"}

\* columns of each table (one text column stands for the payload columns)
Columns(t) ==
  CASE t = "tags" -> {"id", "organization_id", "name"}
    [] t \in {"contacts", "deals"} ->
         {"id", "organization_id", "sales_id", "name", "company_id"}
    [] t = "tasks" -> {"id", "organization_id", "sales_id", "name", "contact_id"}
    [] t \in {"companies", "contact_notes", "deal_notes"} ->
         {"id", "organization_id", "sales_id", "name"}
    [] t = "sales" ->
         {"id", "user_id", "organization_id", "administrator", "disabled"}
    [] t = "organizations" -> {"id", "name"}
    [] t = "auth.users" -> {"id", "banned"}
    [] t = "api_keys" ->
         {"id", "key_hash", "key_prefix", "type", "organization_id", "created_by",
          "name", "scopes", "revoked_at", "expires_at", "last_used_at"}

\* the value a column takes when an INSERT does not name it
ColumnDefault(t, c) ==
  CASE c = "scopes" -> NullScopes
    [] c \in {"name", "type"} -> Unset
    [] c \in {"key_hash", "key_prefix", "user_id"} -> <<>>
    [] c \in {"administrator", "disabled", "banned"} -> FALSE
    [] OTHER -> NULL

EmptyBody == <<>>

\* the value of a body field, or the given value when the body does not carry it
Field(body, c, absent) == IF c \in DOMAIN body THEN body[c] ELSE absent

IsNull(v) == v = NULL

\* SQL equality used as a condition: true only when both sides are non-null and equal
SqlEq(a, b) == ~IsNull(a) /\ ~IsNull(b) /\ a = b

----------------------------------------------------------------------------
(* Session context of a statement *)

ServiceCtx ==
  [role |-> "service_role", uid |-> NoUid,
   api_key_organization_id |-> Unset, api_key_is_master |-> Unset]

\* text -> bigint cast of app.api_key_organization_id
TextToBigint(s) ==
  CASE s = "1" -> 1 [] s = "2" -> 2 [] s = "3" -> 3 [] OTHER -> NULL

auth_uid(ctx) == ctx.uid

\* SELECT organization_id FROM sales WHERE user_id = auth.uid()
SalesOrgOf(d, uid) ==
  LET s == {r \in d["sales"] : uid # NoUid /\ r.user_id = uid}
  IN IF s = {} THEN NULL ELSE (CHOOSE r \in s : TRUE).organization_id

\* SELECT id FROM sales WHERE user_id = auth.uid()
SalesIdOf(d, uid) ==
  LET s == {r \in d["sales"] : uid # NoUid /\ r.user_id = uid}
  IN IF s = {} THEN NULL ELSE (CHOOSE r \in s : TRUE).id

\* (variant: the organization variable is looked at before the master variable)
get_user_organization_id_org_first(d, ctx) ==
  IF ctx.api_key_organization_id # Unset /\ ctx.api_key_organization_id # ""
  THEN TextToBigint(ctx.api_key_organization_id)
  ELSE IF ctx.api_key_is_master = "true" THEN NULL
       ELSE SalesOrgOf(d, auth_uid(ctx))

get_user_organization_id(d, ctx) ==
  IF ctx.api_key_is_master = "true" THEN NULL
  ELSE IF ctx.api_key_organization_id # Unset /\ ctx.api_key_organization_id # ""
       THEN TextToBigint(ctx.api_key_organization_id)
       ELSE SalesOrgOf(d, auth_uid(ctx))

is_master_api_key(ctx) == ctx.api_key_is_master = "true"

----------------------------------------------------------------------------
(* Row-level policies.  Each policy is a predicate on (context, row); the    *)
(* permissive policies that apply to a command are combined with OR.         *)

tenant_isolation(d, ctx, t, row) ==
  IF t = "organizations"
  THEN SqlEq(row.id, get_user_organization_id(d, ctx))
  ELSE SqlEq(row.organization_id, get_user_organization_id(d, ctx))

\* (variants of the policy: dropped, and granted to every session)
master_key_full_access_dropped(ctx) == FALSE
master_key_full_access_to_all(ctx) == TRUE

master_key_full_access(ctx) == is_master_api_key(ctx)

\* the commands for which a tenant_isolation_<cmd> policy exists on table t
TenantPolicyCmds(t) ==
  IF t \in TenantTables THEN {"SELECT", "INSERT", "UPDATE", "DELETE"}
  ELSE IF t \in {"sales", "organizations"} THEN {"SELECT"}
  ELSE {}

\* USING / WITH CHECK of command cmd on table t, for the row given
PolicyPermits(d, ctx, t, cmd, row) ==
  \/ ctx.role = "service_role"
  \/ cmd \in TenantPolicyCmds(t) /\ tenant_isolation(d, ctx, t, row)
  \/ t \in (TenantTables \cup {"sales", "organizations"}) /\ master_key_full_access(ctx)

----------------------------------------------------------------------------
(* BEFORE INSERT triggers *)

set_sales_id_default(d, ctx, row) ==
  LET current_sales_id == SalesIdOf(d, auth_uid(ctx))
      current_org_id == SalesOrgOf(d, auth_uid(ctx))
  IN [c \in DOMAIN row |->
        IF c = "sales_id" /\ IsNull(row[c]) THEN current_sales_id
        ELSE IF c = "organization_id" /\ IsNull(row[c]) THEN current_org_id
        ELSE row[c]]

set_tags_organization_id(d, ctx, row) ==
  LET current_org_id == SalesOrgOf(d, auth_uid(ctx))
  IN [c \in DOMAIN row |->
        IF c = "organization_id" /\ IsNull(row[c]) THEN current_org_id
        ELSE row[c]]

\* the tables whose BEFORE INSERT trigger executes set_sales_id_default
SalesIdTriggerTables ==
  {"tasks", "contacts", "contact_notes", "companies", "deals", "deal_notes"}

\* (variant: the tags table without its trigger)
BeforeInsertWithoutTags(d, ctx, t, row) ==
  IF t \in SalesIdTriggerTables THEN set_sales_id_default(d, ctx, row) ELSE row

BeforeInsert(d, ctx, t, row) ==
  IF t \in SalesIdTriggerTables THEN set_sales_id_default(d, ctx, row)
  ELSE IF t = "tags" THEN set_tags_organization_id(d, ctx, row)
  ELSE row

----------------------------------------------------------------------------
(* Storage statements.  Each yields [error, rows, db, seq]: rows are the    *)
(* rows returned or affected.                                               *)

OrgIds(d) == {o.id : o \in d["organizations"]}

\* (variant: the table does not constrain type and organization_id)
api_keys_type_check_dropped(row) == TRUE

\* the constraint of the api_keys table on type and organization_id, as the data
\* model gives it: an organization key has an organization, a master key has none
api_keys_type_check(row) ==
  /\ row.type = "organization" => ~IsNull(row.organization_id)
  /\ row.type = "master" => IsNull(row.organization_id)

\* NOT NULL and foreign-key constraints on organization_id, primary key on id
ConstraintsHold(d, t, row, others) ==
  /\ \A r \in others : r.id # row.id
  /\ t \in TenantTables \cup {"sales"} =>
       ~IsNull(row.organization_id) /\ row.organization_id \in OrgIds(d)
  /\ t = "api_keys" =>
       /\ IsNull(row.organization_id) \/ row.organization_id \in OrgIds(d)
       /\ api_keys_type_check(row)

StorageError(d, s) == [error |-> TRUE, rows |-> {}, db |-> d, seq |-> s]

Matches(row, filters) == \A c \in DOMAIN filters : row[c] = filters[c]

SqlSelect(d, s, ctx, t, filters) ==
  IF t \notin DOMAIN d \/ ~(DOMAIN filters \subseteq Columns(t)) THEN StorageError(d, s)
  ELSE [error |-> FALSE,
        rows |-> {r \in d[t] : Matches(r, filters) /\ PolicyPermits(d, ctx, t, "SELECT", r)},
        db |-> d, seq |-> s]

\* the row an INSERT is about to write: column defaults, then the BEFORE INSERT trigger
NewRow(d, s, ctx, t, body) ==
  BeforeInsert(d, ctx, t,
               [c \in Columns(t) |->
                  IF c \in DOMAIN body THEN body[c]
                  ELSE IF c = "id" THEN s[t] + 1 ELSE ColumnDefault(t, c)])

SqlInsert(d, s, ctx, t, body) ==
  IF t \notin DOMAIN d \/ ~(DOMAIN body \subseteq Columns(t)) THEN StorageError(d, s)
  ELSE
    LET row == NewRow(d, s, ctx, t, body)
    IN IF /\ PolicyPermits(d, ctx, t, "INSERT", row)
          /\ ConstraintsHold(d, t, row, d[t])
       THEN [error |-> FALSE, rows |-> {row},
             db |-> [d EXCEPT ![t] = @ \cup {row}],
             seq |-> [s EXCEPT ![t] = row.id]]
       ELSE StorageError(d, s)

UpdateRow(row, body) ==
  [c \in DOMAIN row |-> IF c \in DOMAIN body THEN body[c] ELSE row[c]]

SqlUpdate(d, s, ctx, t, body, filters) ==
  IF \/ t \notin DOMAIN d
     \/ ~(DOMAIN body \subseteq Columns(t))
     \/ ~(DOMAIN filters \subseteq Columns(t))
  THEN StorageError(d, s)
  ELSE
    LET target == {r \in d[t] : /\ Matches(r, filters)
                                /\ PolicyPermits(d, ctx, t, "SELECT", r)
                                /\ PolicyPermits(d, ctx, t, "UPDATE", r)}
        updated == {UpdateRow(r, body) : r \in target}
        rest == d[t] \ target
    IN IF /\ \A r \in updated : PolicyPermits(d, ctx, t, "UPDATE", r)
          /\ \A r \in updated : ConstraintsHold(d, t, r, rest \cup (updated \ {r}))
          /\ Cardinality(updated) = Cardinality(target)
       THEN [error |-> FALSE, rows |-> updated,
             db |-> [d EXCEPT ![t] = rest \cup updated], seq |-> s]
       ELSE StorageError(d, s)

SqlDelete(d, s, ctx, t, filters) ==
  IF t \notin DOMAIN d \/ ~(DOMAIN filters \subseteq Columns(t)) THEN StorageError(d, s)
  ELSE
    LET target == {r \in d[t] : /\ Matches(r, filters)
                                /\ PolicyPermits(d, ctx, t, "SELECT", r)
                                /\ PolicyPermits(d, ctx, t, "DELETE", r)}
    IN [error |-> FALSE, rows |-> target,
        db |-> [d EXCEPT ![t] = @ \ target], seq |-> s]

----------------------------------------------------------------------------
(* API keys *)

\* a bearer credential: its family prefix and its secret part
MasterPrefix == "ak_master_"
OrgPrefix == "ak_org_"

\* SHA-256 of the key text: deterministic and collision-free on the keys of the model
hashApiKey(key) == <<"sha256", key.prefix, key.secret>>

InvalidKey ==
  [isValid |-> FALSE, type |-> Unset, organizationId |-> NULL, scopes |-> {},
   keyHash |-> <<>>]

\* key.startsWith("ak_"): the two key families are the bearer texts that do
StartsWithAk(key) == key.prefix \in {MasterPrefix, OrgPrefix}

\* (variant: expires_at is not looked at)
validateApiKeyIgnoringExpiry(d, key, t) ==
  IF ~StartsWithAk(key) THEN InvalidKey
  ELSE
    LET keyHash == hashApiKey(key)
        found == {r \in d["api_keys"] : r.key_hash = keyHash}
    IN IF Cardinality(found) # 1 THEN InvalidKey
       ELSE
         LET apiKeyRecord == CHOOSE r \in found : TRUE
         IN IF ~IsNull(apiKeyRecord.revoked_at) THEN InvalidKey
            ELSE [isValid |-> TRUE,
                  type |-> apiKeyRecord.type,
                  organizationId |-> apiKeyRecord.organization_id,
                  scopes |-> IF apiKeyRecord.scopes = NullScopes
                             THEN {"read", "write"} ELSE apiKeyRecord.scopes,
                  keyHash |-> keyHash]

validateApiKey(d, key, t) ==
  IF ~StartsWithAk(key) THEN InvalidKey
  ELSE
    LET keyHash == hashApiKey(key)
        found == {r \in d["api_keys"] : r.key_hash = keyHash}
    IN IF Cardinality(found) # 1 THEN InvalidKey
       ELSE
         LET apiKeyRecord == CHOOSE r \in found : TRUE
         IN IF ~IsNull(apiKeyRecord.revoked_at) THEN InvalidKey
            ELSE IF ~IsNull(apiKeyRecord.expires_at) /\ apiKeyRecord.expires_at < t
            THEN InvalidKey
            ELSE [isValid |-> TRUE,
                  type |-> apiKeyRecord.type,
                  organizationId |-> apiKeyRecord.organization_id,
                  scopes |-> IF apiKeyRecord.scopes = NullScopes
                             THEN {"read", "write"} ELSE apiKeyRecord.scopes,
                  keyHash |-> keyHash]

\* the fire-and-forget UPDATE api_keys SET last_used_at = now WHERE key_hash = keyHash
StampLastUsed(d, keyHash, t) ==
  [d EXCEPT !["api_keys"] =
     {IF r.key_hash = keyHash THEN [r EXCEPT !.last_used_at = t] ELSE r : r \in @}]

----------------------------------------------------------------------------
(* Rate limiter *)

MapSet(map, k, v) == [x \in DOMAIN map \cup {k} |-> IF x = k THEN v ELSE map[x]]

\* yields the decision and the Map after the call
\* (variant: the limit compared with > instead of >=)
checkRateLimitOffByOne(map, keyHash, t) ==
  IF keyHash \notin DOMAIN map \/ t > map[keyHash].resetAt
  THEN [ok |-> TRUE, map |-> MapSet(map, keyHash, [count |-> 1, resetAt |-> t + RATE_WINDOW])]
  ELSE IF map[keyHash].count > RATE_LIMIT
       THEN [ok |-> FALSE, map |-> map]
       ELSE [ok |-> TRUE, map |-> [map EXCEPT ![keyHash].count = @ + 1]]

\* (variant: a rejected request is counted as well)
checkRateLimitCountingRejected(map, keyHash, t) ==
  IF keyHash \notin DOMAIN map \/ t > map[keyHash].resetAt
  THEN [ok |-> TRUE, map |-> MapSet(map, keyHash, [count |-> 1, resetAt |-> t + RATE_WINDOW])]
  ELSE [ok |-> map[keyHash].count < RATE_LIMIT,
        map |-> [map EXCEPT ![keyHash].count = @ + 1]]

\* (variant: a window of 30 seconds)
checkRateLimitHalfWindow(map, keyHash, t) ==
  IF keyHash \notin DOMAIN map \/ t > map[keyHash].resetAt
  THEN [ok |-> TRUE,
        map |-> MapSet(map, keyHash, [count |-> 1, resetAt |-> t + RATE_WINDOW \div 2])]
  ELSE IF map[keyHash].count >= RATE_LIMIT
       THEN [ok |-> FALSE, map |-> map]
       ELSE [ok |-> TRUE, map |-> [map EXCEPT ![keyHash].count = @ + 1]]

\* (variant: an admitted request is not added to the count)
checkRateLimitUncounted(map, keyHash, t) ==
  IF keyHash \notin DOMAIN map \/ t > map[keyHash].resetAt
  THEN [ok |-> TRUE, map |-> MapSet(map, keyHash, [count |-> 1, resetAt |-> t + RATE_WINDOW])]
  ELSE IF map[keyHash].count >= RATE_LIMIT
       THEN [ok |-> FALSE, map |-> map]
       ELSE [ok |-> TRUE, map |-> map]

checkRateLimit(map, keyHash, t) ==
  IF keyHash \notin DOMAIN map \/ t > map[keyHash].resetAt
  THEN [ok |-> TRUE, map |-> MapSet(map, keyHash, [count |-> 1, resetAt |-> t + RATE_WINDOW])]
  ELSE IF map[keyHash].count >= RATE_LIMIT
       THEN [ok |-> FALSE, map |-> map]
       ELSE [ok |-> TRUE, map |-> [map EXCEPT ![keyHash].count = @ + 1]]

----------------------------------------------------------------------------
(* api-gateway handler *)

NoHeader == [prefix |-> "<none>", secret |-> 0]

Reply(status, message, data, d, s, map, inserted) ==
  [status |-> status, message |-> message, data |-> data,
   db |-> d, seq |-> s, map |-> map, inserted |-> inserted]

FromStorage(res, map, inserted) ==
  IF res.error THEN Reply(500, "storage error", {}, res.db, res.seq, map, {})
  ELSE Reply(200, "", res.rows, res.db, res.seq, map, IF inserted THEN res.rows ELSE {})

\* (variant: the id filter alone)
OrgIdFiltersIdOnly(validation, id) == [id |-> id]

\* .eq("id", id).eq("organization_id", validation.organizationId) of PATCH and DELETE
OrgIdFilters(validation, id) ==
  [id |-> id, organization_id |-> validation.organizationId]

\* the try block of the handler: dispatch by key type and verb
Dispatch(validation, operation, resource, id, body, d, s, map) ==
  IF validation.type = "master" THEN
    CASE operation = "GET" ->
           FromStorage(SqlSelect(d, s, ServiceCtx, resource, <<>>), map, FALSE)
      [] operation = "POST" ->
           FromStorage(SqlInsert(d, s, ServiceCtx, resource, body), map, TRUE)
      [] operation = "PATCH" ->
           IF IsNull(id) THEN Reply(400, "Missing id parameter for PATCH", {}, d, s, map, {})
           ELSE FromStorage(SqlUpdate(d, s, ServiceCtx, resource, body, [id |-> id]),
                            map, FALSE)
      [] operation = "DELETE" ->
           IF IsNull(id) THEN Reply(400, "Missing id parameter for DELETE", {}, d, s, map, {})
           ELSE LET res == SqlDelete(d, s, ServiceCtx, resource, [id |-> id])
                IN FromStorage([res EXCEPT !.rows = {}], map, FALSE)
      [] OTHER -> Reply(200, "", {}, d, s, map, {})
  ELSE
    CASE operation = "GET" ->
           FromStorage(SqlSelect(d, s, ServiceCtx, resource,
                                 [organization_id |-> validation.organizationId]),
                       map, FALSE)
      [] operation = "POST" ->
           LET bodyWithOrg ==
                 [c \in DOMAIN body \cup {"organization_id"} |->
                    IF c = "organization_id" THEN validation.organizationId ELSE body[c]]
           IN FromStorage(SqlInsert(d, s, ServiceCtx, resource, bodyWithOrg), map, TRUE)
      [] operation = "PATCH" ->
           IF IsNull(id) THEN Reply(400, "Missing id parameter for PATCH", {}, d, s, map, {})
           ELSE FromStorage(
                  SqlUpdate(d, s, ServiceCtx, resource, body, OrgIdFilters(validation, id)),
                  map, FALSE)
      [] operation = "DELETE" ->
           IF IsNull(id) THEN Reply(400, "Missing id parameter for DELETE", {}, d, s, map, {})
           ELSE LET res == SqlDelete(d, s, ServiceCtx, resource,
                                     OrgIdFilters(validation, id))
                IN FromStorage([res EXCEPT !.rows = {}], map, FALSE)
      [] OTHER -> Reply(200, "", {}, d, s, map, {})

\* the handler from the point where await validateApiKey(authHeader) has yielded
\* validation: the call of checkRateLimit runs with no await before it
AfterValidation(validation, operation, resource, id, body, d, s, map, t) ==
  IF ~validation.isValid
  THEN Reply(401, "Invalid or expired API key", {}, d, s, map, {})
  ELSE
    LET stamped == StampLastUsed(d, validation.keyHash, t)
        limit == checkRateLimit(map, validation.keyHash, t)
    IN IF ~limit.ok
       THEN Reply(429, "Rate limit exceeded. Maximum 100 requests per minute.",
                  {}, stamped, s, limit.map, {})
       ELSE IF resource = "<none>"
       THEN Reply(400, "Missing resource parameter", {}, stamped, s, limit.map, {})
       ELSE Dispatch(validation, operation, resource, id, body,
                     stamped, s, limit.map)

\* the whole handler, from the Authorization header to the response
Handle(authHeader, operation, resource, id, body, d, s, map, t) ==
  IF authHeader = NoHeader
  THEN Reply(401, "Missing Authorization header", {}, d, s, map, {})
  ELSE AfterValidation(validateApiKey(d, authHeader, t), operation, resource, id, body,
                       d, s, map, t)

\* The record of what a key has asked for: a window opens with the key's first
\* request, and with its first request made more than 60 seconds after the window
\* opened; first is the instant the window opened, nth the number of requests made
\* in it so far (counted up to one past the limit), afterFull whether the window
\* before it ran past the limit.
Counted(w, keyHash, t) ==
  IF keyHash \notin DOMAIN w
  THEN MapSet(w, keyHash, [first |-> t, nth |-> 1, afterFull |-> FALSE])
  ELSE IF t - w[keyHash].first > RATE_WINDOW
  THEN MapSet(w, keyHash, [first |-> t, nth |-> 1,
                           afterFull |-> w[keyHash].nth > RATE_LIMIT])
  ELSE [w EXCEPT ![keyHash].nth = IF @ > RATE_LIMIT THEN @ ELSE @ + 1]

\* one request: params are the query parameters other than resource, of which the
\* handler reads the id (url.searchParams.get("id"))
GatewayCall(authHeader, operation, resource, params, body) ==
  \E validation \in {validateApiKey(db, authHeader, now)},
     out \in {Handle(authHeader, operation, resource, Field(params, "id", NULL), body,
                     db, seq, rateLimitMap, now)} :
     /\ db' = out.db
     /\ seq' = out.seq
     /\ rateLimitMap' = out.map
     /\ request' = [kind |-> "gateway", auth |-> authHeader, operation |-> operation,
                    resource |-> resource, id |-> Field(params, "id", NULL),
                    params |-> params, body |-> body, validation |-> validation]
     /\ response' = [status |-> out.status, message |-> out.message, data |-> out.data]
     /\ creator' = [k \in DOMAIN creator \cup {<<resource, r.id>> : r \in out.inserted} |->
                      IF k \in DOMAIN creator THEN creator[k]
                      ELSE validation.organizationId]
     /\ window' = IF validation.isValid
                  THEN Counted(window, validation.keyHash, now) ELSE window
     /\ UNCHANGED <<now, inflight>>

\* a request whose admissions are not kept
GatewayRequest(authHeader, operation, resource, id, body) ==
  /\ GatewayCall(authHeader, operation, resource,
                 IF IsNull(id) THEN EmptyBody ELSE [id |-> id], body)
  /\ UNCHANGED admitted

\* admitted after a request with the validation given: for each instant no more than
\* 60 seconds before now, how many requests of the key the limiter let through
Admitted(validation) ==
  LET keyHash == validation.keyHash
      ok == checkRateLimit(rateLimitMap, keyHash, now).ok
      old == IF keyHash \in DOMAIN admitted THEN admitted[keyHash] ELSE <<>>
      kept == {i \in DOMAIN old : now - i <= RATE_WINDOW}
  IN IF validation.isValid
     THEN MapSet(admitted, keyHash,
                 [i \in kept \cup (IF ok THEN {now} ELSE {}) |->
                    (IF i \in kept THEN old[i] ELSE 0)
                      + (IF ok /\ i = now THEN 1 ELSE 0)])
     ELSE admitted

\* a request whose admission by the limiter is kept: admitted holds, for each instant
\* no more than 60 seconds before now, how many requests of the key were let through
TimedGatewayRequest(authHeader, operation, resource, id, body) ==
  /\ GatewayCall(authHeader, operation, resource,
                 IF IsNull(id) THEN EmptyBody ELSE [id |-> id], body)
  /\ admitted' = Admitted(validateApiKey(db, authHeader, now))

\* Handlers that run at once in one isolate: a handler gives way at an await and the
\* others run on from theirs. The handler numbered n begins and waits for
\* validateApiKey.
BeginGateway(n, authHeader) ==
  /\ n \notin DOMAIN inflight
  /\ inflight' = MapSet(inflight, n, [auth |-> authHeader,
                                      validation |-> validateApiKey(db, authHeader, now)])
  /\ UNCHANGED <<db, seq, rateLimitMap, now, request, response, creator, window,
                 admitted>>

\* handler n runs on from await validateApiKey to its response
ResumeGateway(n, operation, resource, id, body) ==
  /\ n \in DOMAIN inflight
  /\ LET validation == inflight[n].validation
     IN \E out \in {AfterValidation(validation, operation, resource, id, body,
                                    db, seq, rateLimitMap, now)} :
          /\ db' = out.db
          /\ seq' = out.seq
          /\ rateLimitMap' = out.map
          /\ request' = [kind |-> "gateway", auth |-> inflight[n].auth,
                         operation |-> operation, resource |-> resource, id |-> id,
                         params |-> IF IsNull(id) THEN EmptyBody ELSE [id |-> id],
                         body |-> body, validation |-> validation, handler |-> n]
          /\ response' = [status |-> out.status, message |-> out.message,
                          data |-> out.data]
          /\ window' = IF validation.isValid
                       THEN Counted(window, validation.keyHash, now) ELSE window
          /\ admitted' = Admitted(validation)
  /\ inflight' = [m \in DOMAIN inflight \ {n} |-> inflight[m]]
  /\ UNCHANGED <<now, creator>>

----------------------------------------------------------------------------
(* Initial database: MaxOrgs organizations, each with one administrator and  *)
(* one read-write key; a member of organization 1 who is no administrator;   *)
(* a master key; a read-only key of organization 1.                          *)

\* the uid of the identity numbered o (the row of auth.users with that id)
UserOf(o) == <<"user", o>>

OrgKey(o) == [prefix |-> OrgPrefix, secret |-> o]
MasterKey == [prefix |-> MasterPrefix, secret |-> 1]
ReadOnlyKey == [prefix |-> OrgPrefix, secret |-> MaxOrgs + 1]
UnknownKey == [prefix |-> OrgPrefix, secret |-> MaxOrgs + 2]

\* apiKey.substring(0, 12) + "...": the family prefix and the first characters of
\* the random part, which do not determine the key
KeyPrefixOf(key) == <<key.prefix, "...">>

ApiKeyRow(id, key, type, org, scopes) ==
  [id |-> id, key_hash |-> hashApiKey(key), key_prefix |-> KeyPrefixOf(key),
   type |-> type, organization_id |-> org, created_by |-> NULL, name |-> "key",
   scopes |-> scopes, revoked_at |-> NULL, expires_at |-> NULL, last_used_at |-> NULL]

InitialDb ==
  [t \in Tables |->
     CASE t = "organizations" -> {[id |-> o, name |-> "org"] : o \in Orgs}
       [] t = "sales" ->
            {[id |-> o, user_id |-> UserOf(o), organization_id |-> o,
              administrator |-> TRUE, disabled |-> FALSE] : o \in Orgs}
              \cup {[id |-> MaxOrgs + 1, user_id |-> UserOf(MaxOrgs + 1),
                     organization_id |-> 1,
                     administrator |-> FALSE, disabled |-> FALSE]}
       [] t = "api_keys" -> ({ApiKeyRow(o, OrgKey(o), "organization", o, NullScopes) : o \in Orgs}
                               \cup {ApiKeyRow(MaxOrgs + 1, ReadOnlyKey, "organization", 1, {"read"}),
                                     ApiKeyRow(MaxOrgs + 2, MasterKey, "master", NULL, NullScopes)})
       [] t = "auth.users" -> {[id |-> u, banned |-> FALSE] : u \in 1..(MaxOrgs + 1)}
       [] OTHER -> {}]

InitialSeq ==
  [t \in Tables |->
     CASE t = "organizations" -> MaxOrgs
       [] t = "sales" -> MaxOrgs + 1
       [] t = "api_keys" -> MaxOrgs + 2
       [] t = "auth.users" -> MaxOrgs + 1
       [] OTHER -> 0]

NoRequest == [kind |-> "none"]
NoResponse == [status |-> 0, message |-> "", data |-> {}]

Init ==
  /\ db = InitialDb
  /\ seq = InitialSeq
  /\ rateLimitMap = <<>>
  /\ now = 1
  /\ request = NoRequest
  /\ response = NoResponse
  /\ creator = <<>>
  /\ window = <<>>
  /\ admitted = <<>>
  /\ inflight = <<>>

----------------------------------------------------------------------------
(* api-keys endpoint *)

\* a bearer session token of the user numbered u
JwtPrefix == "jwt"
Jwt(u) == [prefix |-> JwtPrefix, secret |-> u]

\* localClient.auth.getUser(): the user of a session token, none for anything else
getUser(authHeader) ==
  IF authHeader.prefix = JwtPrefix THEN UserOf(authHeader.secret) ELSE NoUid

HexDigits ==
  <<"0", "1", "2", "3", "4", "5", "6", "7", "8", "9", "a", "b", "c", "d", "e", "f">>

\* Array.from(randomBytes).map((b) => b.toString(16).padStart(2, "0")).join("")
\*   .substring(0, 32): two hex digits for each byte, cut after 32 characters
randomString(randomBytes) ==
  LET joined == [i \in 1..(2 * Len(randomBytes)) |->
                   LET b == randomBytes[(i + 1) \div 2]
                   IN IF i % 2 = 1 THEN HexDigits[(b \div 16) + 1]
                      ELSE HexDigits[(b % 16) + 1]]
  IN SubSeq(joined, 1, IF Len(joined) < 32 THEN Len(joined) ELSE 32)

\* (variant: the same characters at every call)
generateApiKeyFixed(type, random) ==
  [prefix |-> IF type = "master" THEN MasterPrefix ELSE OrgPrefix, secret |-> 1]

\* prefix + 32 hex characters drawn at random: random stands for the drawn characters
generateApiKey(type, random) ==
  [prefix |-> IF type = "master" THEN MasterPrefix ELSE OrgPrefix, secret |-> random]

KeysReply(status, message, data, d, s) ==
  [status |-> status, message |-> message, data |-> data, db |-> d, seq |-> s]

\* the response of a successful creation: the one place the key text appears
CreatedKey(apiKey, newKey) ==
  [key |-> apiKey, id |-> newKey.id, key_prefix |-> KeyPrefixOf(apiKey),
   type |-> newKey.type, organization_id |-> newKey.organization_id,
   name |-> newKey.name]

\* (variant: the organization is not looked up before the insert)
handleMasterKeyPostUnchecked(body, random, d, s) ==
  LET organization_id == Field(body, "organization_id", NULL)
  IN IF IsNull(organization_id)
     THEN KeysReply(400, "organization_id is required when using master key", {}, d, s)
     ELSE
       LET apiKey == generateApiKey("organization", random)
           res == SqlInsert(d, s, ServiceCtx, "api_keys",
                            [key_hash |-> hashApiKey(apiKey),
                             key_prefix |-> KeyPrefixOf(apiKey),
                             type |-> "organization",
                             organization_id |-> organization_id,
                             created_by |-> NULL,
                             expires_at |-> Field(body, "expires_at", NULL),
                             name |-> Field(body, "name", "Auto-provisioned by HABA")])
       IN IF res.error THEN KeysReply(500, "Failed to create API key", {}, d, s)
          ELSE KeysReply(200, "", {CreatedKey(apiKey, r) : r \in res.rows}, res.db, res.seq)

handleMasterKeyPost(body, random, d, s) ==
  LET organization_id == Field(body, "organization_id", NULL)
  IN IF IsNull(organization_id)
     THEN KeysReply(400, "organization_id is required when using master key", {}, d, s)
     ELSE IF organization_id \notin OrgIds(d)
     THEN KeysReply(404, "Organization not found", {}, d, s)
     ELSE
       LET apiKey == generateApiKey("organization", random)
           res == SqlInsert(d, s, ServiceCtx, "api_keys",
                            [key_hash |-> hashApiKey(apiKey),
                             key_prefix |-> KeyPrefixOf(apiKey),
                             type |-> "organization",
                             organization_id |-> organization_id,
                             created_by |-> NULL,
                             expires_at |-> Field(body, "expires_at", NULL),
                             name |-> Field(body, "name", "Auto-provisioned by HABA")])
       IN IF res.error THEN KeysReply(500, "Failed to create API key", {}, d, s)
          ELSE KeysReply(200, "", {CreatedKey(apiKey, r) : r \in res.rows}, res.db, res.seq)

\* (variant: the revocation looks at the id alone)
RevokeFiltersIdOnly(id, currentUserSale) == [id |-> id]

\* .eq("id", id).eq("organization_id", currentUserSale.organization_id)
RevokeFilters(id, currentUserSale) ==
  [id |-> id, organization_id |-> currentUserSale.organization_id]

\* the session-authenticated branches, for an administrator's sales record
HandleAdmin(currentUserSale, method, body, random, d, s, t) ==
  CASE method = "POST" ->
         LET type == Field(body, "type", Unset)
         IN IF type \notin {"master", "organization"}
            THEN KeysReply(400, "Invalid key type", {}, d, s)
            ELSE IF type = "master"
            THEN KeysReply(403, "Master keys can only be created via database", {}, d, s)
            ELSE
              LET apiKey == generateApiKey(type, random)
                  res == SqlInsert(d, s, ServiceCtx, "api_keys",
                                   [key_hash |-> hashApiKey(apiKey),
                                    key_prefix |-> KeyPrefixOf(apiKey),
                                    type |-> type,
                                    organization_id |->
                                      IF type = "organization"
                                      THEN currentUserSale.organization_id ELSE NULL,
                                    created_by |-> currentUserSale.id,
                                    expires_at |-> Field(body, "expires_at", NULL),
                                    name |-> Field(body, "name", Unset)])
              IN IF res.error THEN KeysReply(500, "Failed to create API key", {}, d, s)
                 ELSE KeysReply(200, "", {CreatedKey(apiKey, r) : r \in res.rows},
                                res.db, res.seq)
    [] method = "GET" ->
         LET res == SqlSelect(d, s, ServiceCtx, "api_keys",
                              [organization_id |-> currentUserSale.organization_id])
         IN IF res.error THEN KeysReply(500, "Failed to fetch API keys", {}, d, s)
            ELSE KeysReply(200, "",
                           {[c \in {"id", "key_prefix", "type", "name",
                                    "last_used_at", "expires_at", "revoked_at"} |-> r[c]]
                              : r \in res.rows}, d, s)
    [] method = "DELETE" ->
         LET res == SqlUpdate(d, s, ServiceCtx, "api_keys", [revoked_at |-> t],
                              RevokeFilters(Field(body, "id", NULL), currentUserSale))
         IN IF res.error THEN KeysReply(500, "Failed to revoke API key", {}, d, s)
            ELSE KeysReply(200, "", {}, res.db, res.seq)
    [] OTHER -> KeysReply(405, "Method not allowed", {}, d, s)

\* the whole handler of the api-keys endpoint
HandleApiKeys(authHeader, method, body, random, d, s, t) ==
  IF authHeader = NoHeader
  THEN KeysReply(401, "Missing Authorization header", {}, d, s)
  ELSE IF StartsWithAk(authHeader)
  THEN
    LET validation == validateApiKey(d, authHeader, t)
    IN IF ~validation.isValid
       THEN KeysReply(401, "Invalid or expired API key", {}, d, s)
       ELSE
         LET stamped == StampLastUsed(d, validation.keyHash, t)
         IN IF validation.type # "master"
            THEN KeysReply(403, "Only master API keys can provision organization keys",
                           {}, stamped, s)
            ELSE IF method = "POST"
            THEN handleMasterKeyPost(body, random, stamped, s)
            ELSE KeysReply(405, "Master key only supports POST method", {}, stamped, s)
  ELSE
    LET user == getUser(authHeader)
        sales == {r \in d["sales"] : user # NoUid /\ r.user_id = user}
    IN IF Cardinality(sales) # 1
       THEN KeysReply(401, "Unauthorized", {}, d, s)
       ELSE
         LET currentUserSale == CHOOSE r \in sales : TRUE
         IN IF ~currentUserSale.administrator
            THEN KeysReply(403, "Only administrators can manage API keys", {}, d, s)
            ELSE HandleAdmin(currentUserSale, method, body, random, d, s, t)

ApiKeysRequest(authHeader, method, body, random) ==
  \E out \in {HandleApiKeys(authHeader, method, body, random, db, seq, now)} :
     /\ db' = out.db
     /\ seq' = out.seq
     /\ request' = [kind |-> "api-keys", auth |-> authHeader, method |-> method,
                    body |-> body]
     /\ response' = [status |-> out.status, message |-> out.message, data |-> out.data]
     /\ UNCHANGED <<rateLimitMap, now, creator, window, admitted, inflight>>

\* one call of generateApiKey with the bytes crypto.getRandomValues delivered
GenerateApiKey(type, randomBytes) ==
  /\ request' = [kind |-> "generateApiKey", type |-> type, randomBytes |-> randomBytes]
  /\ response' = [status |-> 0, message |-> "",
                  data |-> {generateApiKey(type, randomString(randomBytes))}]
  /\ UNCHANGED <<db, seq, rateLimitMap, now, creator, window, admitted, inflight>>

----------------------------------------------------------------------------
(* Identities and the onboarding trigger on auth.users *)

\* (variant: an organization_name in the metadata wins over the organization_id)
org_id_unless_named(meta) ==
  IF "organization_name" \in DOMAIN meta THEN NULL ELSE Field(meta, "organization_id", NULL)

\* new.raw_user_meta_data ->> 'organization_id', cast to bigint: NULL when the key is
\* absent or null
org_id_from(meta) == Field(meta, "organization_id", NULL)

\* new.raw_user_meta_data ? 'organization_name'
has_org_name(meta) == "organization_name" \in DOMAIN meta

\* COALESCE(new.raw_user_meta_data ->> 'organization_name', 'My Organization')
org_name_from(meta) ==
  IF Field(meta, "organization_name", Unset) = Unset THEN "My Organization"
  ELSE meta["organization_name"]

\* (variant: the count is taken to be zero)
sales_count_zero(d) == 0

\* SELECT count(id) FROM public.sales
sales_count(d) == Cardinality(d["sales"])

\* (variant: taken from the metadata, as for an invited user)
is_admin_from_metadata(meta) == Field(meta, "administrator", FALSE)

\* is_admin of the one who brings a new organization
is_admin_of_founder(meta) == TRUE

\* is_admin of an invited user: COALESCE(administrator, false)
is_admin_of_invited(meta) == Field(meta, "administrator", FALSE)

\* INSERT INTO public.sales (..., user_id, administrator, organization_id)
InsertSale(new, is_admin, org_id, d, s) ==
  SqlInsert(d, s, ServiceCtx, "sales",
            [user_id |-> UserOf(new.id), administrator |-> is_admin,
             organization_id |-> org_id])

\* the trigger function, run for the new row of auth.users; an exception is an error;
\* seen is the database as the statement SELECT count(id) sees it: what was committed
\* when that statement began
handle_new_user(new, meta, seen, d, s) ==
  LET org_id == org_id_from(meta)
  IN IF IsNull(org_id)
     THEN IF has_org_name(meta) \/ sales_count(seen) = 0
          THEN LET org == SqlInsert(d, s, ServiceCtx, "organizations",
                                    [name |-> IF has_org_name(meta) THEN org_name_from(meta)
                                              ELSE "My Organization"])
               IN IF org.error THEN StorageError(d, s)
                  ELSE InsertSale(new, is_admin_of_founder(meta),
                                  (CHOOSE r \in org.rows : TRUE).id, org.db, org.seq)
          ELSE StorageError(d, s)
     ELSE InsertSale(new, is_admin_of_invited(meta), org_id, d, s)

\* INSERT INTO auth.users with the metadata given: the row and what the trigger does
\* are one transaction, undone as a whole when the trigger fails
CreateIdentity(meta, seen, d, s) ==
  LET ins == SqlInsert(d, s, ServiceCtx, "auth.users", EmptyBody)
  IN IF ins.error THEN StorageError(d, s)
     ELSE LET new == CHOOSE r \in ins.rows : TRUE
              trig == handle_new_user(new, meta, seen, ins.db, ins.seq)
          IN IF trig.error THEN StorageError(d, s)
             ELSE [error |-> FALSE, rows |-> {new}, db |-> trig.db, seq |-> trig.seq]

\* an identity is created with the metadata given (sign-up form, SQL, admin API), with
\* no other transaction under way
SignUp(meta) ==
  \E out \in {CreateIdentity(meta, db, db, seq)} :
     /\ db' = out.db
     /\ seq' = out.seq
     /\ request' = [kind |-> "signup", meta |-> meta]
     /\ response' = [status |-> IF out.error THEN 500 ELSE 200,
                     message |-> "",
                     data |-> out.rows]
     /\ UNCHANGED <<rateLimitMap, now, creator, window, admitted, inflight>>

----------------------------------------------------------------------------

(* users endpoint *)

updateSaleDisabled(user_id, disabled, d, s) ==
  SqlUpdate(d, s, ServiceCtx, "sales", [disabled |-> disabled], [user_id |-> user_id])

\* throws when the update fails or touches no row
updateSaleAdministrator(user_id, administrator, d, s) ==
  LET res == SqlUpdate(d, s, ServiceCtx, "sales", [administrator |-> administrator],
                       [user_id |-> user_id])
  IN IF res.error \/ res.rows = {} THEN StorageError(d, s) ELSE res

\* try { updateSaleDisabled; updateSaleAdministrator } catch: the end of inviteUser
\* and of patchUser
PatchSale(user_id, disabled, administrator, d, s) ==
  LET dis == updateSaleDisabled(user_id, disabled, d, s)
      adm == updateSaleAdministrator(user_id, administrator, dis.db, s)
  IN IF adm.error THEN KeysReply(500, "Internal Server Error", {}, dis.db, s)
     ELSE KeysReply(200, "", adm.rows, adm.db, s)

createServiceAccount(body, d, s) ==
  LET organization_id == Field(body, "organization_id", NULL)
  IN IF IsNull(organization_id)
     THEN KeysReply(400, "organization_id is required", {}, d, s)
     ELSE IF organization_id \notin OrgIds(d)
     THEN KeysReply(404, "Organization not found", {}, d, s)
     ELSE
       LET created == CreateIdentity([organization_id |-> organization_id], d, d, s)
       IN IF created.error THEN KeysReply(500, "createUser failed", {}, d, s)
          ELSE KeysReply(201, "",
                         {[user_id |-> UserOf(u.id), organization_id |-> organization_id]
                            : u \in created.rows},
                         created.db, created.seq)

\* mailOk: whether the invitation mail, sent when the body has no password, goes out;
\* the body carries administrator and may carry disabled
inviteUser(body, currentUserSale, mailOk, d, s) ==
  IF ~currentUserSale.administrator THEN KeysReply(401, "Not Authorized", {}, d, s)
  ELSE
    LET created == CreateIdentity([organization_id |-> currentUserSale.organization_id,
                                   administrator |-> Field(body, "administrator", FALSE)],
                                  d, d, s)
        emailError == "password" \notin DOMAIN body /\ ~mailOk
    IN IF created.error THEN KeysReply(500, "Internal Server Error", {}, d, s)
       ELSE IF emailError
       THEN KeysReply(500, "Failed to send invitation mail", {}, created.db, created.seq)
       ELSE PatchSale(UserOf((CHOOSE u \in created.rows : TRUE).id),
                      Field(body, "disabled", FALSE), Field(body, "administrator", FALSE),
                      created.db, created.seq)

\* the body carries sales_id and administrator and may carry disabled
patchUser(body, currentUserSale, d, s) ==
  LET found == {r \in d["sales"] : r.id = Field(body, "sales_id", NULL)}
  IN IF found = {} THEN KeysReply(404, "Not Found", {}, d, s)
     ELSE
       LET sale == CHOOSE r \in found : TRUE
       IN IF ~currentUserSale.administrator /\ currentUserSale.id # sale.id
          THEN KeysReply(401, "Not Authorized", {}, d, s)
          ELSE
            LET updated ==
                  IF sale.user_id = NoUid THEN StorageError(d, s)
                  ELSE SqlUpdate(d, s, ServiceCtx, "auth.users",
                                 [banned |-> Field(body, "disabled", FALSE)],
                                 [id |-> sale.user_id[2]])
            IN IF updated.error \/ updated.rows = {}
               THEN KeysReply(500, "Internal Server Error", {}, d, s)
               ELSE IF ~currentUserSale.administrator
               THEN KeysReply(200, "", {sale}, updated.db, s)
               ELSE PatchSale(sale.user_id, Field(body, "disabled", FALSE),
                              Field(body, "administrator", FALSE), updated.db, s)

\* the whole handler of the users endpoint
HandleUsers(authHeader, method, body, mailOk, d, s, t) ==
  IF authHeader = NoHeader
  THEN KeysReply(401, "Missing Authorization header", {}, d, s)
  ELSE IF StartsWithAk(authHeader)
  THEN
    LET validation == validateApiKey(d, authHeader, t)
    IN IF ~validation.isValid
       THEN KeysReply(401, "Invalid or expired API key", {}, d, s)
       ELSE
         LET stamped == StampLastUsed(d, validation.keyHash, t)
         IN IF validation.type # "master"
            THEN KeysReply(403, "Only master API keys can create service accounts",
                           {}, stamped, s)
            ELSE IF method = "POST"
            THEN createServiceAccount(body, stamped, s)
            ELSE KeysReply(405, "Master key only supports POST method", {}, stamped, s)
  ELSE
    LET user == getUser(authHeader)
        sales == {r \in d["sales"] : user # NoUid /\ r.user_id = user}
    IN IF Cardinality(sales) # 1
       THEN KeysReply(401, "Unauthorized", {}, d, s)
       ELSE
         LET currentUserSale == CHOOSE r \in sales : TRUE
         IN IF method = "POST" THEN inviteUser(body, currentUserSale, mailOk, d, s)
            ELSE IF method = "PATCH" THEN patchUser(body, currentUserSale, d, s)
            ELSE KeysReply(405, "Method Not Allowed", {}, d, s)

UsersRequest(authHeader, method, body, mailOk) ==
  \E out \in {HandleUsers(authHeader, method, body, mailOk, db, seq, now)} :
     /\ db' = out.db
     /\ seq' = out.seq
     /\ request' = [kind |-> "users", auth |-> authHeader, method |-> method,
                    body |-> body]
     /\ response' = [status |-> out.status, message |-> out.message, data |-> out.data]
     /\ UNCHANGED <<rateLimitMap, now, creator, window, admitted, inflight>>

----------------------------------------------------------------------------

(* Requests of the data-path specification *)

OrgCredentials == {OrgKey(o) : o \in Orgs}

GatewayResources == {"contacts"}

\* the key stays below burst requests in its current window
BurstOk(authHeader, burst) ==
  LET h == hashApiKey(authHeader)
  IN IF h \notin DOMAIN rateLimitMap THEN TRUE
     ELSE IF now > rateLimitMap[h].resetAt THEN TRUE
     ELSE rateLimitMap[h].count < burst

GatewayStep(creds, burst, rows) ==
  \E authHeader \in creds, operation \in {"GET", "POST", "PATCH", "PUT", "DELETE"},
     resource \in GatewayResources :
    \E id \in (IF operation \in {"PATCH", "DELETE"} THEN 0..rows ELSE {NULL}),
       body \in (CASE operation = "POST" ->
                        {[name |-> "Alice"]} \cup {[name |-> "Alice", organization_id |-> o] : o \in Orgs}
                   [] operation = "PATCH" ->
                        {[name |-> "Hacked"]} \cup {[organization_id |-> o] : o \in Orgs}
                   [] operation = "PUT" -> {[name |-> "Hacked"]}
                   [] OTHER -> {EmptyBody}) :
      /\ BurstOk(authHeader, burst)
      /\ (operation = "POST" /\ resource \in DOMAIN seq => seq[resource] < rows)
      /\ GatewayRequest(authHeader, operation, resource, id, body)

----------------------------------------------------------------------------
(* Statements of session clients: the authenticated role, under the          *)
(* row-level policies, with a JWT subject and/or the API-key variables.      *)

\* bigint -> text, as the variable app.api_key_organization_id holds it
BigintToText(n) ==
  CASE n = 1 -> "1" [] n = 2 -> "2" [] n = 3 -> "3" [] OTHER -> ""

SessionCtx(uid, orgVar, masterVar) ==
  [role |-> "authenticated", uid |-> uid,
   api_key_organization_id |-> orgVar, api_key_is_master |-> masterVar]

JwtCtx(o) == SessionCtx(UserOf(o), Unset, Unset)
ApiKeyCtx(o) == SessionCtx(NoUid, BigintToText(o), Unset)
MasterCtx == SessionCtx(NoUid, Unset, "true")

Statement(ctx, cmd, t, id, body, d, s) ==
  CASE cmd = "SELECT" -> SqlSelect(d, s, ctx, t, <<>>)
    [] cmd = "INSERT" -> SqlInsert(d, s, ctx, t, body)
    [] cmd = "UPDATE" -> SqlUpdate(d, s, ctx, t, body, [id |-> id])
    [] cmd = "DELETE" -> SqlDelete(d, s, ctx, t, [id |-> id])

SqlRequest(ctx, cmd, t, id, body) ==
  \E res \in {Statement(ctx, cmd, t, id, body, db, seq)} :
     /\ db' = res.db
     /\ seq' = res.seq
     /\ request' = [kind |-> "sql", ctx |-> ctx, cmd |-> cmd, table |-> t,
                    id |-> id, body |-> body]
     /\ response' = [status |-> 0, error |-> res.error, message |-> "", data |-> res.rows]
     /\ creator' = IF cmd = "INSERT" /\ ~res.error
                   THEN [k \in DOMAIN creator \cup {<<t, r.id>> : r \in res.rows} |->
                           IF k \in DOMAIN creator THEN creator[k]
                           ELSE get_user_organization_id(db, ctx)]
                   ELSE creator
     /\ UNCHANGED <<rateLimitMap, now, window, admitted, inflight>>

\* a database session of the tests: set_config(name, value, true) on the JWT subject
\* and the two API-key variables; clearing a variable (value NULL) leaves it
\* absent or empty
set_config(name, value) ==
  LET ctx == IF request.kind = "session" THEN request.ctx
             ELSE SessionCtx(NoUid, Unset, Unset)
  IN /\ request' = [kind |-> "session", statement |-> "set_config",
                    ctx |-> [ctx EXCEPT ![name] = value]]
     /\ response' = [status |-> 0, error |-> FALSE, message |-> "", data |-> {}]
     /\ UNCHANGED <<db, seq, rateLimitMap, now, creator, window, admitted, inflight>>

\* SELECT get_user_organization_id() in the session
SelectOrganizationId ==
  /\ request.kind = "session"
  /\ request' = [request EXCEPT !.statement = "select"]
  /\ response' = [status |-> 0, error |-> FALSE, message |-> "",
                  data |-> {get_user_organization_id(db, request.ctx)}]
  /\ UNCHANGED <<db, seq, rateLimitMap, now, creator, window, admitted, inflight>>

SpecResolver ==
  /\ Init
  /\ [][ \/ \E u \in 1..(MaxOrgs + 2) : set_config("uid", UserOf(u))
         \/ \E v \in {Unset, ""} \cup {BigintToText(o) : o \in Orgs} :
               set_config("api_key_organization_id", v)
         \/ \E v \in {Unset, "", "true", "false"} : set_config("api_key_is_master", v)
         \/ SelectOrganizationId ]_vars

\* (variant: the joins of the views before the migration, on the id alone)
JoinOnIdOnly(base, baseCol, other, otherCol) == SqlEq(base[baseCol], other[otherCol])

\* ON base.<baseCol> = other.<otherCol> AND base.organization_id = other.organization_id
TenantJoin(base, baseCol, other, otherCol) ==
  /\ SqlEq(base[baseCol], other[otherCol])
  /\ SqlEq(base.organization_id, other.organization_id)

\* the rows of table t the session may select: the views are security_invoker, so
\* the policies of the underlying tables apply with the caller's context
Visible(d, ctx, t) == {r \in d[t] : PolicyPermits(d, ctx, t, "SELECT", r)}

\* companies_summary: c.*, count(distinct d.id), count(distinct co.id), GROUP BY c.id
companies_summary(d, ctx) ==
  {[col \in Columns("companies") \cup {"nb_deals", "nb_contacts"} |->
      CASE col = "nb_deals" ->
             Cardinality({x \in Visible(d, ctx, "deals") : TenantJoin(c, "id", x, "company_id")})
        [] col = "nb_contacts" ->
             Cardinality({x \in Visible(d, ctx, "contacts") :
                            TenantJoin(c, "id", x, "company_id")})
        [] OTHER -> c[col]]
   : c \in Visible(d, ctx, "companies")}

\* contacts_summary: co.*, c.name, count(distinct t.id), GROUP BY co.id, c.name; a
\* contact without a joined company has the company_name NULL (Unset for a text)
contacts_summary(d, ctx) ==
  UNION {
    LET joined == {c \in Visible(d, ctx, "companies") : TenantJoin(co, "company_id", c, "id")}
        names == IF joined = {} THEN {Unset} ELSE {c.name : c \in joined}
    IN {[col \in Columns("contacts") \cup {"company_name", "nb_tasks"} |->
           CASE col = "company_name" -> n
             [] col = "nb_tasks" ->
                  Cardinality({t \in Visible(d, ctx, "tasks") :
                                 TenantJoin(co, "id", t, "contact_id")})
             [] OTHER -> co[col]]
        : n \in names}
    : co \in Visible(d, ctx, "contacts")}

\* SELECT * FROM <view> in a session
ViewRequest(ctx, view) ==
  /\ request' = [kind |-> "view", ctx |-> ctx, view |-> view]
  /\ response' = [status |-> 0, error |-> FALSE, message |-> "",
                  data |-> IF view = "companies_summary" THEN companies_summary(db, ctx)
                           ELSE contacts_summary(db, ctx)]
  /\ UNCHANGED <<db, seq, rateLimitMap, now, creator, window, admitted, inflight>>

SqlStep(contexts, tables, maxRows) ==
  \E t \in tables, cmd \in {"SELECT", "INSERT", "UPDATE", "DELETE"} :
    /\ (\A u \in TenantTables \ {t} : seq[u] = 0)
    /\ cmd = "INSERT" => seq[t] < maxRows
    /\ \E ctx \in contexts,
          id \in (IF cmd \in {"UPDATE", "DELETE"} THEN 1..maxRows ELSE {NULL}),
          body \in (CASE cmd = "INSERT" ->
                            {EmptyBody} \cup {[organization_id |-> o] : o \in Orgs}
                      [] cmd = "UPDATE" -> {[organization_id |-> o] : o \in Orgs}
                      [] OTHER -> {EmptyBody}) :
         SqlRequest(ctx, cmd, t, id, body)

SpecRls ==
  /\ Init
  /\ [][ SqlStep({JwtCtx(o) : o \in Orgs} \cup {ApiKeyCtx(o) : o \in Orgs},
                   TenantTables, MaxSqlRows) ]_vars

\* statements of the session principals: JWT subjects with a sales record
SpecPrincipal ==
  /\ Init
  /\ [][ SqlStep({JwtCtx(o) : o \in Orgs}, TenantTables, MaxSqlRows) ]_vars

----------------------------------------------------------------------------
(* Data path: gateway requests with the read-write keys and the master key,  *)
(* and statements of a session under master scope, on one table.             *)

Next ==
  \/ GatewayStep({OrgKey(o) : o \in Orgs} \cup {MasterKey}, MaxBurst, MaxRows)
  \/ SqlStep({MasterCtx}, GatewayResources, MaxRows)

Spec == Init /\ [][Next]_vars

\* gateway requests with the read-write organization keys only
SpecOrg ==
  /\ Init
  /\ [][ GatewayStep(OrgCredentials, MaxBurst + 1, MaxRows) ]_vars

\* gateway requests with the read-only key
SpecReadOnly ==
  /\ Init
  /\ [][ GatewayStep({ReadOnlyKey}, MaxBurst + 2, MaxRows + 1) ]_vars

\* gateway requests with the read-write organization keys, each key at most
\* MaxBurst times, and with a key that has no record
SpecIsolation ==
  /\ Init
  /\ [][ GatewayStep(OrgCredentials \cup {UnknownKey}, MaxBurst, MaxRows) ]_vars

\* requests under master scope: the gateway with the master key, and statements
\* of a session with app.api_key_is_master = 'true'
SpecMaster ==
  /\ Init
  /\ [][ \/ GatewayStep({MasterKey}, MaxBurst + 1, MaxRows + 1)
         \/ SqlStep({MasterCtx}, GatewayResources, MaxRows + 1) ]_vars

----------------------------------------------------------------------------
(* Key lifecycle: the administrator of organization 1 creates, lists and     *)
(* revokes keys; read-write keys of organization 1 call the gateway on the   *)
(* api_keys resource; time passes.                                           *)

\* keys created on top of the initial ones
MaxNewKeys == 1

\* clock ticks of the key-lifecycle specification, one millisecond each
MaxKeyTicks == 2

\* the n-th key created: its random part differs from every key before it
NewKey(n) == [prefix |-> OrgPrefix, secret |-> InitialSeq["api_keys"] + n]

Tick(step, last) ==
  /\ now + step <= last
  /\ now' = now + step
  /\ UNCHANGED <<db, seq, rateLimitMap, request, response, creator, window, admitted, inflight>>

KeysStep(auths) ==
  \E authHeader \in auths, method \in {"POST", "GET", "DELETE"} :
    \E body \in (CASE method = "POST" ->
                        {[name |-> "key", type |-> "organization", expires_at |-> e] : e \in {NULL, now + 1}}
                   [] method = "DELETE" -> {[id |-> i] : i \in {1, InitialSeq["api_keys"] + 1}}
                   [] OTHER -> {EmptyBody}) :
      /\ method = "POST" => seq["api_keys"] < InitialSeq["api_keys"] + MaxNewKeys
      /\ ApiKeysRequest(authHeader, method, body, seq["api_keys"] + 1)

\* keys are created, revoked and left to expire, and read through the gateway
SpecReject ==
  /\ Init
  /\ [][ \/ KeysStep({Jwt(1)})
         \* keys of the lifecycle specifications read contacts through the gateway
         \/ \E authHeader \in {NewKey(n) : n \in 1..MaxNewKeys} :
              /\ BurstOk(authHeader, MaxBurst)
              /\ GatewayRequest(authHeader, "GET", "contacts", NULL, EmptyBody)
         \/ Tick(1, 1 + MaxKeyTicks) ]_vars

----------------------------------------------------------------------------
(* Onboarding: identities are created in a database that holds nothing yet.  *)

\* identities created in the onboarding specification
MaxSignUps == 3

InitFresh ==
  /\ db = [t \in Tables |-> {}]
  /\ seq = [t \in Tables |-> 0]
  /\ rateLimitMap = <<>>
  /\ now = 1
  /\ request = NoRequest
  /\ response = NoResponse
  /\ creator = <<>>
  /\ window = <<>>
  /\ admitted = <<>>
  /\ inflight = <<>>

SpecOnboard ==
  /\ InitFresh
  /\ [][ (\E meta \in
               {org @@ adm @@ name :
                  org \in {EmptyBody} \cup {[organization_id |-> o] : o \in Orgs},
                  adm \in {EmptyBody} \cup {[administrator |-> a] : a \in BOOLEAN},
                  name \in {EmptyBody} \cup {[organization_name |-> n] : n \in {"Acme", Unset}}} :
            /\ seq["auth.users"] < MaxSignUps
            /\ SignUp(meta)) ]_vars

\* A transaction that creates an identity while others do: each statement of a
\* transaction sees what was committed when the statement began, and what the
\* transaction wrote is seen by the others when it commits. The transaction numbered
\* n begins, and its trigger runs as far as SELECT count(id) FROM public.sales.
BeginSignUp(n, meta) ==
  /\ n \notin DOMAIN inflight
  /\ inflight' = MapSet(inflight, n, [meta |-> meta, seen |-> db])
  /\ UNCHANGED <<db, seq, rateLimitMap, now, request, response, creator, window,
                 admitted>>

\* the rest of the trigger of transaction n, and its commit or its rollback
EndSignUp(n) ==
  /\ n \in DOMAIN inflight
  /\ \E out \in {CreateIdentity(inflight[n].meta, inflight[n].seen, db, seq)} :
       /\ db' = out.db
       /\ seq' = out.seq
       /\ request' = [kind |-> "signup", meta |-> inflight[n].meta]
       /\ response' = [status |-> IF out.error THEN 500 ELSE 200,
                       message |-> "",
                       data |-> out.rows]
  /\ inflight' = [m \in DOMAIN inflight \ {n} |-> inflight[m]]
  /\ UNCHANGED <<rateLimitMap, now, creator, window, admitted>>

\* identities are created by transactions that run at once in a database that holds
\* nothing yet; none carries organization_name, some carry the organization_id of an
\* invitation
SpecBootstrap ==
  /\ InitFresh
  /\ [][ \/ \E n \in 1..MaxTransactions,
                meta \in {org @@ adm :
                            org \in {EmptyBody} \cup {[organization_id |-> o] : o \in Orgs},
                            adm \in {EmptyBody} \cup {[administrator |-> a] : a \in BOOLEAN}} :
               /\ seq["auth.users"] + Cardinality(DOMAIN inflight) < MaxSignUps
               /\ BeginSignUp(n, meta)
         \/ \E n \in 1..MaxTransactions : EndSignUp(n) ]_vars

\* identities are created in the initial database, with every kind of metadata, while
\* the keys of the organizations read and delete principals through the gateway
SpecIdentity ==
  /\ Init
  /\ [][ \/ \E meta \in {EmptyBody, [organization_name |-> "Acme"]}
                          \cup {[organization_id |-> o] : o \in Orgs \cup {MaxOrgs + 1}} :
               /\ seq["auth.users"] < InitialSeq["auth.users"] + MaxSignUps
               /\ SignUp(meta)
         \/ \E authHeader \in {OrgKey(o) : o \in Orgs}, operation \in {"GET", "DELETE"} :
              \E id \in IF operation = "GET" THEN {NULL} ELSE 1..InitialSeq["sales"] :
                /\ BurstOk(authHeader, MaxBurst + 1)
                /\ GatewayRequest(authHeader, operation, "sales", id, EmptyBody) ]_vars

----------------------------------------------------------------------------
(* Users: the principals of the initial database invite and patch one        *)
(* another through the users endpoint.                                       *)

\* identities created through the users endpoint
MaxInvites == 1

UsersStep(auths, invites) ==
  \E authHeader \in auths, method \in {"POST", "PATCH", "GET"}, mailOk \in BOOLEAN :
    \E body \in (CASE method = "POST" /\ StartsWithAk(authHeader) ->
                        {EmptyBody} \cup {[organization_id |-> o] : o \in Orgs \cup {MaxOrgs + 1}}
                   [] method = "POST" /\ ~StartsWithAk(authHeader) ->
                        {[administrator |-> a, disabled |-> FALSE] : a \in BOOLEAN}
                          \cup {[administrator |-> FALSE, disabled |-> TRUE, password |-> "secret"]}
                   [] method = "PATCH" ->
                        {[sales_id |-> i, administrator |-> a, disabled |-> FALSE] :
                           i \in 2..(InitialSeq["sales"] + 1), a \in BOOLEAN}
                          \cup {[sales_id |-> i, administrator |-> FALSE, disabled |-> TRUE] :
                                  i \in 2..(InitialSeq["sales"] + 1)}
                   [] OTHER -> {EmptyBody}) :
      /\ method = "POST" => seq["auth.users"] < InitialSeq["auth.users"] + invites
      /\ UsersRequest(authHeader, method, body, mailOk)

\* the administrator of organization 1, the member of organization 1 who is no
\* administrator, the master key and a key of organization 1
SpecUsers ==
  /\ Init
  /\ [][ UsersStep({Jwt(1), Jwt(MaxOrgs + 1), MasterKey, OrgKey(1)}, MaxInvites) ]_vars

\* the operations that write principals: the users endpoint, and the gateway with an
\* organization key
SpecMembership ==
  /\ Init
  /\ [][ \/ UsersStep({Jwt(1)}, MaxInvites)
         \/ \E authHeader \in {OrgKey(1)}, operation \in {"GET", "PATCH"} :
              \E id \in IF operation = "PATCH" THEN 1..InitialSeq["sales"] ELSE {NULL},
                 body \in (IF operation = "PATCH" THEN {[organization_id |-> o] : o \in Orgs}
                           ELSE {EmptyBody}) :
                /\ BurstOk(authHeader, MaxBurst)
                /\ GatewayRequest(authHeader, operation, "sales", id, body) ]_vars

----------------------------------------------------------------------------
(* Provisioning: keys are created through the api-keys endpoint, by the      *)
(* administrator of organization 1 and with API keys; an organization key    *)
(* patches the key records through the gateway.                              *)

ProvisionStep(auths, newKeys) ==
  \E authHeader \in auths, method \in {"POST", "GET"} :
    \E body \in (CASE method = "POST" /\ StartsWithAk(authHeader) ->
                        {EmptyBody} \cup {[organization_id |-> o] : o \in Orgs \cup {MaxOrgs + 1}}
                   [] method = "POST" /\ ~StartsWithAk(authHeader) ->
                        {[name |-> "key", type |-> type] : type \in {"organization", "master"}}
                   [] OTHER -> {EmptyBody}) :
      /\ method = "POST" => seq["api_keys"] < InitialSeq["api_keys"] + newKeys
      /\ ApiKeysRequest(authHeader, method, body, seq["api_keys"] + 1)

\* keys are provisioned with API keys while the administrator of organization 1
\* creates, lists and revokes keys
SpecProvision ==
  /\ Init
  /\ [][ \/ ProvisionStep({MasterKey, OrgKey(1), UnknownKey}, MaxNewKeys)
         \/ KeysStep({Jwt(1)}) ]_vars

SpecKeyTypes ==
  /\ Init
  /\ [][ \/ ProvisionStep({MasterKey, Jwt(1)}, MaxNewKeys + 1)
         \/ \E authHeader \in {OrgKey(1)}, id \in {1, InitialSeq["api_keys"] + 1},
               body \in {[type |-> "master"], [organization_id |-> NULL],
                         [type |-> "master", organization_id |-> NULL]} :
              /\ BurstOk(authHeader, MaxBurst + 1)
              /\ GatewayRequest(authHeader, "PATCH", "api_keys", id, body) ]_vars

\* no master key is presented: the administrator of organization 1 and the keys of
\* the organizations call the api-keys endpoint, and the keys of the organizations
\* call the gateway on the api_keys resource and read contacts
SpecEscalation ==
  /\ Init
  /\ [][ \/ ProvisionStep({OrgKey(1), Jwt(1)}, MaxNewKeys)
         \/ \E authHeader \in {OrgKey(o) : o \in Orgs},
               operation \in {"POST", "PATCH", "DELETE"} :
              \E id \in IF operation = "POST" THEN {NULL} ELSE 1..InitialSeq["api_keys"],
                 body \in (IF operation = "DELETE" THEN {EmptyBody}
                           ELSE {[type |-> "master"],
                                 [organization_id |-> MaxOrgs],
                                 [type |-> "master", organization_id |-> NULL]}) :
                /\ BurstOk(authHeader, MaxBurst + 1)
                /\ GatewayRequest(authHeader, operation, "api_keys", id, body)
         \/ \E authHeader \in {OrgKey(o) : o \in Orgs} :
              /\ BurstOk(authHeader, MaxBurst + 1)
              /\ GatewayRequest(authHeader, "GET", "contacts", NULL, EmptyBody) ]_vars

SpecManage ==
  /\ Init
  /\ [][ (\E authHeader \in {Jwt(u) : u \in 1..(MaxOrgs + 2)},
             method \in {"POST", "GET", "DELETE", "PUT"} :
            \E body \in (CASE method = "POST" -> {[name |-> "key", type |-> "organization"]}
                           [] method = "DELETE" ->
                                {[id |-> i] : i \in 1..(InitialSeq["api_keys"] + MaxNewKeys)}
                           [] OTHER -> {EmptyBody}) :
              /\ method = "POST" => seq["api_keys"] < InitialSeq["api_keys"] + MaxNewKeys
              /\ ApiKeysRequest(authHeader, method, body, seq["api_keys"] + 1)) ]_vars

SpecViews ==
  /\ Init
  /\ [][ (\/ \E ctx \in {JwtCtx(1), JwtCtx(2)} :
               \/ /\ seq["companies"] < MaxSqlRows
                  /\ SqlRequest(ctx, "INSERT", "companies", NULL,
                                [name |-> BigintToText(SalesOrgOf(db, auth_uid(ctx)))])
               \/ \E t \in {"deals", "contacts"} :
                    /\ seq[t] < MaxSqlRows
                    /\ seq["companies"] > 0
                    /\ SqlRequest(ctx, "INSERT", t, NULL, [name |-> "Alice", company_id |-> 1])
               \/ /\ seq["tasks"] < MaxSqlRows
                  /\ seq["contacts"] > 0
                  /\ SqlRequest(ctx, "INSERT", "tasks", NULL, [name |-> "call", contact_id |-> 1])
          \/ \E ctx \in {JwtCtx(o) : o \in Orgs} \cup {ApiKeyCtx(o) : o \in Orgs} \cup {MasterCtx},
                view \in {"companies_summary", "contacts_summary"} :
               ViewRequest(ctx, view)) ]_vars

\* organization keys work on contacts, and every key reads them with a name or an
\* id among the query parameters
SpecFilters ==
  /\ Init
  /\ [][ \/ GatewayStep(OrgCredentials, MaxBurst + 1, MaxRows)
         \/ \E authHeader \in OrgCredentials \cup {MasterKey},
               params \in {[name |-> n] : n \in {"Alice", "Bob"}}
                            \cup {[id |-> i] : i \in 1..(MaxRows + 1)} :
              /\ BurstOk(authHeader, MaxBurst + 1)
              /\ GatewayCall(authHeader, "GET", "contacts", params, EmptyBody)
              /\ UNCHANGED admitted ]_vars

\* keys are generated from 32 random bytes: the first n bytes have one value and the
\* others another, for every n and a few byte values
SpecFormat ==
  /\ Init
  /\ [][ \E type \in {"master", "organization"}, n \in 0..32,
              a \in {0, 10, 255}, b \in {0, 171} :
            GenerateApiKey(type, [i \in 1..32 |-> IF i <= n THEN a ELSE b]) ]_vars

SpecKeys ==
  /\ Init
  /\ [][ \/ KeysStep({Jwt(1)})
         \/ \E authHeader \in {OrgKey(1)} \cup {NewKey(n) : n \in 1..MaxNewKeys},
               operation \in {"GET", "PATCH"} :
              \E id \in IF operation = "PATCH" THEN {1, InitialSeq["api_keys"] + 1} ELSE {NULL},
                 body \in (IF operation = "PATCH" THEN {[revoked_at |-> NULL], [expires_at |-> NULL]}
                           ELSE {EmptyBody}) :
                /\ BurstOk(authHeader, MaxBurst)
                /\ GatewayRequest(authHeader, operation, "api_keys", id, body)
         \/ Tick(1, 1 + MaxKeyTicks) ]_vars

----------------------------------------------------------------------------
(* Rate limiting: one key reads contacts again and again while time passes.  *)

\* clock ticks per 60-second window
TicksPerWindow == 3

\* clock ticks of the rate-limit specification
MaxRateTicks == 4

RateTick == RATE_WINDOW \div TicksPerWindow

SpecRate ==
  /\ Init
  /\ [][ \/ GatewayRequest(OrgKey(1), "GET", "contacts", NULL, EmptyBody)
         \/ Tick(RateTick, 1 + MaxRateTicks * RateTick) ]_vars

\* two keys of organization 1 and a key without record: the first key asks until it
\* is turned away, the others ask a few times; the clock may pass the window once
SpecFrame ==
  /\ Init
  /\ [][ \/ GatewayRequest(OrgKey(1), "GET", "contacts", NULL, EmptyBody)
         \/ \E authHeader \in {ReadOnlyKey, UnknownKey} :
              /\ BurstOk(authHeader, MaxBurst + 1)
              /\ GatewayRequest(authHeader, "GET", "contacts", NULL, EmptyBody)
         \/ Tick(RATE_WINDOW + 1, RATE_WINDOW + 2) ]_vars

----------------------------------------------------------------------------
(* Rolling intervals: one key asks at instants one millisecond less than a   *)
(* window apart, so that two consecutive instants lie within 60 seconds.     *)

\* clock ticks of the rolling-interval specification
MaxRollTicks == 2

RollTick == RATE_WINDOW - 1

SpecRoll ==
  /\ Init
  /\ [][ \/ TimedGatewayRequest(OrgKey(1), "GET", "contacts", NULL, EmptyBody)
         \/ Tick(RollTick, 1 + MaxRollTicks * RollTick) ]_vars

\* handlers of the gateway run at once: they begin with the key of organization 1
\* or, once, with a key without record, and each runs on in its turn; the clock may
\* pass the window once
SpecLimiter ==
  /\ Init
  /\ [][ \/ \E n \in 1..MaxTransactions : BeginGateway(n, OrgKey(1))
         \/ \E n \in 1..MaxTransactions :
              /\ request = NoRequest
              /\ BeginGateway(n, UnknownKey)
         \/ \E n \in 1..MaxTransactions :
              ResumeGateway(n, "GET", "contacts", NULL, EmptyBody)
         \/ Tick(RATE_WINDOW + 1, RATE_WINDOW + 2) ]_vars

----------------------------------------------------------------------------
(* Properties *)

\* the request was made with a valid key of the given type
KeyRequest(req, type) ==
  /\ req.kind = "gateway"
  /\ req.validation.isValid
  /\ req.validation.type = type

\* the request ran under master scope: a valid master key, or app.api_key_is_master = 'true'
MasterScope(req) ==
  \/ KeyRequest(req, "master")
  \/ req.kind = "sql" /\ is_master_api_key(req.ctx)

ReqIs(req, operation, cmd) ==
  IF req.kind = "gateway" THEN req.operation = operation ELSE req.cmd = cmd

Succeeded(req, resp) == IF req.kind = "gateway" THEN resp.status = 200 ELSE ~resp.error

RowsWithId(d, t, id) == {r \in d[t] : r.id = id}

\* C1: a GET made with a key bound to organization O2 never returns a row that
\* was created under another organization
C1_ReadIsolation ==
  (KeyRequest(request, "organization") /\ request.operation = "GET" /\ response.status = 200)
    => \A r \in response.data :
         creator[<<request.resource, r.id>>] = request.validation.organizationId

\* C2: a PATCH or DELETE made with a key bound to O2 that targets the id of a row of
\* another organization leaves the table as it was and is answered 200 with no row
\* (unless the rate limiter turned the request away)
C2_WriteIsolation ==
  [][ ( /\ KeyRequest(request', "organization")
        /\ request'.operation \in {"PATCH", "DELETE"}
        /\ response'.status # 429
        /\ \E r \in RowsWithId(db, request'.resource, request'.id) :
             r.organization_id # request'.validation.organizationId )
      => /\ db'[request'.resource] = db[request'.resource]
         /\ response'.status = 200
         /\ response'.data = {} ]_vars

\* C2 witness: the PATCH {"name": "Hacked"} of another tenant's row was answered 200
\* and the row still reads "Alice"
C2_Witness ==
  /\ KeyRequest(request, "organization")
  /\ request.operation = "PATCH"
  /\ request.body = [name |-> "Hacked"]
  /\ response.status = 200
  /\ \E r \in RowsWithId(db, request.resource, request.id) :
       /\ r.organization_id # request.validation.organizationId
       /\ r.name = "Alice"

\* C3: every tenant-scoped row carries the organization of the key that created it
C3_RowOwnership ==
  \A t \in TenantTables : \A r \in db[t] : r.organization_id = creator[<<t, r.id>>]

\* C4: a mutating request made with a valid key that lacks the write scope is
\* answered 403 and writes nothing
C4_ScopeEnforcement ==
  [][ ( /\ request'.kind = "gateway"
        /\ request'.validation.isValid
        /\ "write" \notin request'.validation.scopes
        /\ request'.operation \in {"POST", "PATCH", "PUT", "DELETE"}
        /\ request'.operation \in {"PATCH", "DELETE"} => ~IsNull(request'.id) )
      => /\ response'.status = 403
         /\ \A t \in TenantTables : db'[t] = db[t] ]_vars

\* the key has a record that is revoked, or expired at time t
Dead(d, key, t) ==
  \E r \in d["api_keys"] :
    /\ r.key_hash = hashApiKey(key)
    /\ \/ ~IsNull(r.revoked_at)
       \/ ~IsNull(r.expires_at) /\ r.expires_at < t

\* C5: once a key's record is revoked, or the time is past its expires_at, the key
\* fails validation after every later step
C5_LifecycleMonotone ==
  [][ \A key \in ({OrgKey(o) : o \in Orgs} \cup {NewKey(n) : n \in 1..MaxNewKeys}) :
        Dead(db, key, now) => ~validateApiKey(db', key, now').isValid ]_vars

\* C6: under master scope a read returns every row of the table, whatever its
\* organization; an insert that names an existing organization, and an update or
\* delete of any row by id, take effect
C6_MasterBypass ==
  [][ (MasterScope(request') /\ ~(request'.kind = "gateway" /\ response'.status = 429))
      => LET t == (IF request'.kind = "gateway" THEN request'.resource ELSE request'.table)
             target == RowsWithId(db, t, request'.id)
         IN /\ ReqIs(request', "GET", "SELECT") =>
                 Succeeded(request', response') /\ response'.data = db[t]
            /\ ( /\ ReqIs(request', "POST", "INSERT")
                 /\ "organization_id" \in DOMAIN request'.body )
               => /\ Succeeded(request', response')
                  /\ \E r \in db'[t] \ db[t] :
                       r.organization_id = request'.body.organization_id
            /\ ReqIs(request', "PATCH", "UPDATE") /\ target # {}
               => /\ Succeeded(request', response')
                  /\ db'[t] = (db[t] \ target)
                                \cup {UpdateRow(r, request'.body) : r \in target}
            /\ ReqIs(request', "DELETE", "DELETE") /\ target # {}
               => /\ Succeeded(request', response')
                  /\ db'[t] = db[t] \ target ]_vars

\* C6 witness: a read under master scope returned rows of two organizations
C6_Witness ==
  /\ MasterScope(request)
  /\ ReqIs(request, "GET", "SELECT")
  /\ \E r1, r2 \in response.data : r1.organization_id # r2.organization_id

----------------------------------------------------------------------------
(* Properties of the rate limiter *)

\* C10: of the requests one key makes in a window (from the window's first request
\* to 60 seconds after it, that instant included) the first 100 are admitted and
\* every later one is answered 429; the first request made after that opens a new
\* window, is admitted, and leaves the limiter at count 1 for the next 60 seconds
\* (a step that leaves the clock alone is the handling of a request)
C10_RateLimit ==
  [][ (now' = now /\ request'.kind = "gateway" /\ request'.validation.isValid)
      => LET keyHash == request'.validation.keyHash
             w == window'[keyHash]
         IN /\ w.nth <= RATE_LIMIT => response'.status # 429
            /\ w.nth > RATE_LIMIT => response'.status = 429
            /\ w.nth = 1 =>
                 rateLimitMap'[keyHash] = [count |-> 1, resetAt |-> now' + RATE_WINDOW] ]_vars

\* C10 witness: after a window in which the key was turned away, its first request of
\* the next window was admitted with count 1
C10_Witness ==
  /\ request.kind = "gateway"
  /\ request.validation.isValid
  /\ LET keyHash == request.validation.keyHash
     IN /\ keyHash \in DOMAIN window
        /\ window[keyHash].afterFull
        /\ window[keyHash].nth = 1
        /\ response.status = 200
        /\ rateLimitMap[keyHash].count = 1

----------------------------------------------------------------------------
(* Properties of the session statements *)

\* the statement ran under a non-master scope that resolves to organization S
ScopedTo(req, d, S) ==
  /\ req.kind = "sql"
  /\ ~is_master_api_key(req.ctx)
  /\ ~IsNull(S)
  /\ get_user_organization_id(d, req.ctx) = S

\* C7: under a non-master scope S the policies of a tenant-scoped table let SELECT,
\* UPDATE and DELETE reach exactly the rows of S, and let INSERT and UPDATE write
\* exactly rows of S
C7_PolicyPredicate ==
  [][ \A S \in Orgs :
        ScopedTo(request', db, S) =>
          LET t == request'.table
              mine == {r \in db[t] : r.organization_id = S}
              target == {r \in mine : r.id = request'.id}
              written == {UpdateRow(r, request'.body) : r \in target}
              row == NewRow(db, seq, request'.ctx, t, request'.body)
          IN /\ request'.cmd = "SELECT" =>
                  ~response'.error /\ response'.data = mine
             /\ request'.cmd = "DELETE" =>
                  ~response'.error /\ db'[t] = db[t] \ target
             /\ request'.cmd = "UPDATE" =>
                  IF \A r \in written : r.organization_id = S
                  THEN ~response'.error /\ db'[t] = (db[t] \ target) \cup written
                  ELSE response'.error /\ db'[t] = db[t]
             /\ request'.cmd = "INSERT" =>
                  IF row.organization_id = S
                  THEN ~response'.error /\ db'[t] = db[t] \cup {row}
                  ELSE response'.error /\ db'[t] = db[t] ]_vars

\* C7 witness: a SELECT under a non-master scope returned nothing from a table
\* that holds a row of another organization
C7_Witness ==
  /\ request.kind = "sql"
  /\ request.cmd = "SELECT"
  /\ ~is_master_api_key(request.ctx)
  /\ ~IsNull(get_user_organization_id(db, request.ctx))
  /\ ~response.error
  /\ response.data = {}
  /\ db[request.table] # {}

\* C8: an INSERT that omits organization_id under a non-master scope writes a row
\* whose organization_id is the one get_user_organization_id() resolves
C8_TriggerUsesResolver ==
  \A S \in Orgs :
    ( /\ ScopedTo(request, db, S)
      /\ request.cmd = "INSERT"
      /\ "organization_id" \notin DOMAIN request.body )
    => /\ ~response.error
       /\ response.data # {}
       /\ \A r \in response.data : r.organization_id = S

\* the statement ran for a session principal: a JWT subject with a sales record,
\* no API-key variable set
SessionPrincipal(req, d) ==
  /\ req.kind = "sql"
  /\ req.ctx.api_key_organization_id = Unset
  /\ req.ctx.api_key_is_master = Unset
  /\ ~IsNull(SalesOrgOf(d, req.ctx.uid))

\* C9: on each tenant-scoped table an INSERT by a session principal that omits
\* organization_id succeeds and persists a row of the principal's organization
C9_AutoPopulation ==
  ( /\ SessionPrincipal(request, db)
    /\ request.cmd = "INSERT"
    /\ request.table \in TenantTables
    /\ "organization_id" \notin DOMAIN request.body )
  => /\ ~response.error
     /\ response.data # {}
     /\ \A r \in response.data :
          /\ r \in db[request.table]
          /\ ~IsNull(r.organization_id)
          /\ r.organization_id = SalesOrgOf(db, request.ctx.uid)

\* C9 witness: such an INSERT into tags went through
C9_Witness ==
  /\ SessionPrincipal(request, db)
  /\ request.cmd = "INSERT"
  /\ request.table = "tags"
  /\ "organization_id" \notin DOMAIN request.body
  /\ ~response.error
  /\ \E r \in db["tags"] : r.organization_id = SalesOrgOf(db, request.ctx.uid)

RECURSIVE SumOver(_, _)
SumOver(f, S) ==
  IF S = {} THEN 0
  ELSE LET i == CHOOSE x \in S : TRUE IN f[i] + SumOver(f, S \ {i})

\* the requests of the key admitted in the 60 seconds that end with its latest
\* admitted request
RecentAdmitted(keyHash) ==
  LET a == admitted[keyHash]
  IN IF DOMAIN a = {} THEN 0
     ELSE LET latest == CHOOSE x \in DOMAIN a : \A y \in DOMAIN a : y <= x
          IN SumOver(a, {i \in DOMAIN a : latest - i < RATE_WINDOW})

\* C11 (as stated): for each key hash, no 60 seconds hold more than 100 admitted
\* requests
C11_RollingBound ==
  \A keyHash \in DOMAIN admitted : RecentAdmitted(keyHash) <= RATE_LIMIT

\* C11: for each key hash the limiter admits at most 100 requests in each window
\* (the 60 seconds that start with the window's first request), and at most 199 in
\* any 60 seconds: the 99 that follow the first request of one window and the 100
\* of the next
C11_FixedWindowBound ==
  \A keyHash \in DOMAIN admitted :
     /\ LET a == admitted[keyHash]
        IN SumOver(a, {i \in DOMAIN a : i >= window[keyHash].first}) <= RATE_LIMIT
     /\ RecentAdmitted(keyHash) <= 2 * RATE_LIMIT - 1

\* C11 witness: 199 requests of one key were admitted within 60 seconds
C11_Witness ==
  \E keyHash \in DOMAIN admitted : RecentAdmitted(keyHash) = 2 * RATE_LIMIT - 1

\* why a key of the "ak_" families is turned away at time t: no record carries its
\* hash, its record is revoked, or its record has expired
RejectionCause(d, key, t) ==
  LET found == {r \in d["api_keys"] : r.key_hash = hashApiKey(key)}
  IN IF found = {} THEN "not found"
     ELSE IF \E r \in found : ~IsNull(r.revoked_at) THEN "revoked"
     ELSE IF \E r \in found : ~IsNull(r.expires_at) /\ r.expires_at < t THEN "expired"
     ELSE "none"

InvalidKeyResponse ==
  [status |-> 401, message |-> "Invalid or expired API key", data |-> {}]

\* C12: a gateway request made with a key that has no record, a revoked key or an
\* expired key gets the same validation result and the same response (401, "Invalid
\* or expired API key", no data) whichever of the three it is, and changes nothing
\* in the database or the limiter
C12_UniformRejection ==
  [][ ( /\ now' = now
        /\ request'.kind = "gateway"
        /\ RejectionCause(db, request'.auth, now) \in {"not found", "revoked", "expired"} )
      => /\ request'.validation = InvalidKey
         /\ response' = InvalidKeyResponse
         /\ db' = db /\ seq' = seq /\ rateLimitMap' = rateLimitMap ]_vars

\* C12 witness: a key that was created with an expiry date, and is not revoked, was
\* turned away after that date, while another key of the database is revoked
C12_Witness ==
  /\ request.kind = "gateway"
  /\ RejectionCause(db, request.auth, now) = "expired"
  /\ response = InvalidKeyResponse
  /\ \E r \in db["api_keys"] : ~IsNull(r.revoked_at)

\* the key texts a response carries
KeyTexts(data) == {row.key : row \in {r \in data : "key" \in DOMAIN r}}

\* the records a step has added to api_keys
NewKeyRecords(before, after) ==
  {r \in after["api_keys"] : \A q \in before["api_keys"] : q.id # r.id}

\* C13: a response of the api-keys endpoint carries a key text only when the request
\* is a POST that created the record of that key in this very step; the text is of
\* no record that existed before; the record keeps the hash and the display prefix
\* of the text; the responses of list (GET) and revoke (DELETE) carry no key text
C13_OneTimeSecret ==
  [][ (now' = now /\ request'.kind = "api-keys")
      => /\ \A key \in KeyTexts(response'.data) :
              /\ request'.method = "POST"
              /\ \A q \in db["api_keys"] : q.key_hash # hashApiKey(key)
              /\ \E r \in NewKeyRecords(db, db') :
                    /\ r.key_hash = hashApiKey(key)
                    /\ r.key_prefix = KeyPrefixOf(key)
                    /\ DOMAIN r = Columns("api_keys")
         /\ request'.method \in {"GET", "DELETE"} => KeyTexts(response'.data) = {}
         /\ NewKeyRecords(db, db') # {} => KeyTexts(response'.data) # {} ]_vars

\* C13 witness: the list answered with the record of a key that was created through
\* the endpoint
C13_Witness ==
  /\ request.kind = "api-keys"
  /\ request.method = "GET"
  /\ response.status = 200
  /\ \E row \in response.data : row.id > InitialSeq["api_keys"]

\* the rows of table t that a step has added
Added(t, before, after) == {r \in after[t] : \A q \in before[t] : q.id # r.id}

\* the step adds rows to table t and touches no other row of it
OnlyAdds(t, before, after) == before[t] \subseteq after[t]

\* the identity creation that a sign-up request is
SignUpRequest(req) == req.kind = "signup"

\* C14: an identity creation whose metadata carries neither organization_id nor
\* organization_name, attempted while a principal exists, fails and leaves the
\* identities, the organizations and the principals as they were
C14_SelfRegistrationRejected ==
  [][ ( /\ SignUpRequest(request')
        /\ IsNull(Field(request'.meta, "organization_id", NULL))
        /\ "organization_name" \notin DOMAIN request'.meta
        /\ db["sales"] # {} )
      => /\ response'.status # 200
         /\ db'["auth.users"] = db["auth.users"]
         /\ db'["organizations"] = db["organizations"]
         /\ db'["sales"] = db["sales"] ]_vars

\* C14 witness: with a principal in the database, an identity creation without
\* organization_id and organization_name was turned down
C14_Witness ==
  /\ SignUpRequest(request)
  /\ IsNull(Field(request.meta, "organization_id", NULL))
  /\ "organization_name" \notin DOMAIN request.meta
  /\ response.status # 200
  /\ db["sales"] # {}

\* the step has created one principal, for the identity it has created, in
\* organization org with the administrator flag given, and touched no other principal
OnePrincipal(org, administrator, before, after) ==
  /\ OnlyAdds("sales", before, after)
  /\ OnlyAdds("auth.users", before, after)
  /\ Cardinality(Added("auth.users", before, after)) = 1
  /\ Cardinality(Added("sales", before, after)) = 1
  /\ \A p \in Added("sales", before, after) :
        /\ p.organization_id = org
        /\ p.administrator = administrator
        /\ \E u \in Added("auth.users", before, after) : p.user_id = UserOf(u.id)

\* C15: an identity creation without organization_id that succeeds creates exactly
\* one organization and exactly one principal, bound to that organization, with
\* administrator = true; the creation succeeds when no principal exists yet
C15_NewOrganizationSignup ==
  [][ ( /\ SignUpRequest(request')
        /\ IsNull(Field(request'.meta, "organization_id", NULL)) )
      => /\ db["sales"] = {} => response'.status = 200
         /\ response'.status = 200 =>
              /\ OnlyAdds("organizations", db, db')
              /\ Cardinality(Added("organizations", db, db')) = 1
              /\ \A o \in Added("organizations", db, db') : OnePrincipal(o.id, TRUE, db, db') ]_vars

\* C15 witness: with a principal in the database already, an identity creation that
\* names an organization_name has made the second organization and its administrator
C15_Witness ==
  /\ SignUpRequest(request)
  /\ IsNull(Field(request.meta, "organization_id", NULL))
  /\ "organization_name" \in DOMAIN request.meta
  /\ response.status = 200
  /\ Cardinality(db["organizations"]) = 2
  /\ \A o \in db["organizations"] :
       \E p \in db["sales"] : p.organization_id = o.id /\ p.administrator

\* C16 (as stated): an identity creation whose metadata carries an organization_id
\* creates exactly one principal, bound to that organization, with the administrator
\* value of the metadata (false when absent), and no organization
C16_InvitationPath ==
  [][ ( /\ SignUpRequest(request')
        /\ ~IsNull(Field(request'.meta, "organization_id", NULL)) )
      => /\ db'["organizations"] = db["organizations"]
         /\ OnePrincipal(request'.meta["organization_id"],
                         Field(request'.meta, "administrator", FALSE), db, db') ]_vars

\* C16: an identity creation whose metadata carries the organization_id of an
\* existing organization succeeds and creates exactly one principal, bound to that
\* organization, with the administrator value of the metadata (false when absent),
\* and no organization, whether or not the metadata names an organization_name; with
\* the id of no organization it fails and creates nothing
C16_InvitationPathExisting ==
  [][ ( /\ SignUpRequest(request')
        /\ ~IsNull(Field(request'.meta, "organization_id", NULL)) )
      => IF request'.meta["organization_id"] \in OrgIds(db)
         THEN /\ response'.status = 200
              /\ db'["organizations"] = db["organizations"]
              /\ OnePrincipal(request'.meta["organization_id"],
                              Field(request'.meta, "administrator", FALSE), db, db')
         ELSE /\ response'.status # 200
              /\ db' = db ]_vars

\* C16 witness: an identity creation whose metadata carries an organization_id, an
\* organization_name and administrator = true has made an administrator of the
\* organization named by the id
C16_Witness ==
  /\ SignUpRequest(request)
  /\ ~IsNull(Field(request.meta, "organization_id", NULL))
  /\ "organization_name" \in DOMAIN request.meta
  /\ Field(request.meta, "administrator", FALSE)
  /\ response.status = 200
  /\ \E u \in response.data : \E p \in db["sales"] :
        /\ p.user_id = UserOf(u.id)
        /\ p.organization_id = request.meta["organization_id"]
        /\ p.administrator

\* the principal a session token speaks for
Requester(d, req) == {p \in d["sales"] : p.user_id = getUser(req.auth)}

\* C17: a users-endpoint request changes the administrator or the disabled field of
\* a principal q only if the requester is an administrator of q's organization
C17_RoleChangesInTenant ==
  [][ request'.kind = "users"
      => \A q \in db["sales"] : \A q2 \in db'["sales"] :
           ( /\ q2.id = q.id
             /\ (q2.administrator # q.administrator \/ q2.disabled # q.disabled) )
           => \E p \in Requester(db, request') :
                 p.administrator /\ p.organization_id = q.organization_id ]_vars

\* C18: no step changes the organization_id of a principal that exists
C18_NoOrganizationSwitching ==
  [][ \A q \in db["sales"] : \A q2 \in db'["sales"] :
        q2.id = q.id => q2.organization_id = q.organization_id ]_vars

\* C19: in every state every key record of type organization has an organization_id
\* that names an existing organization, and every key record of type master has none
C19_KeyTypeInvariant ==
  \A r \in db["api_keys"] :
     /\ r.type = "organization" =>
          ~IsNull(r.organization_id) /\ r.organization_id \in OrgIds(db)
     /\ r.type = "master" => IsNull(r.organization_id)

\* C19 witness: a key made by the administrator POST and a key made with the master
\* key are in the table, and a PATCH that would have made a master key of an
\* organization's key was turned down by the table
C19_Witness ==
  /\ \E r \in db["api_keys"] : r.id > InitialSeq["api_keys"] /\ ~IsNull(r.created_by)
  /\ \E r \in db["api_keys"] : r.id > InitialSeq["api_keys"] /\ IsNull(r.created_by)
  /\ request.kind = "gateway"
  /\ request.body = [type |-> "master"]
  /\ response.status = 500

\* a request to the api-keys endpoint that presents an API key
ProvisionRequest(req) == req.kind = "api-keys" /\ StartsWithAk(req.auth)

\* C20: on the API-key path of the api-keys endpoint a key record is created only
\* for a POST with a valid master key and the organization_id of an existing
\* organization, and it is one record of type organization bound to that
\* organization; such a request is answered 200; a valid organization key is answered
\* 403, an invalid key 401, a POST without organization_id 400, with an unknown
\* organization 404, and none of these creates a record
C20_MasterOnlyProvisioning ==
  [][ ProvisionRequest(request')
      => LET validation == validateApiKey(db, request'.auth, now)
             organization_id == Field(request'.body, "organization_id", NULL)
             created == NewKeyRecords(db, db')
             master == validation.isValid /\ validation.type = "master"
             post == master /\ request'.method = "POST"
         IN /\ created # {} =>
                 /\ post
                 /\ organization_id \in OrgIds(db)
                 /\ Cardinality(created) = 1
                 /\ \A r \in created :
                       r.type = "organization" /\ r.organization_id = organization_id
            /\ (post /\ organization_id \in OrgIds(db)) =>
                 response'.status = 200 /\ created # {}
            /\ ~validation.isValid => response'.status = 401
            /\ (validation.isValid /\ validation.type = "organization") =>
                 response'.status = 403
            /\ (post /\ IsNull(organization_id)) => response'.status = 400
            /\ (post /\ ~IsNull(organization_id) /\ organization_id \notin OrgIds(db)) =>
                 response'.status = 404 ]_vars

\* C20 witness: a POST with the master key and the id of organization 2 was answered
\* with a new key of type organization bound to organization 2
C20_Witness ==
  /\ ProvisionRequest(request)
  /\ request.auth = MasterKey
  /\ request.method = "POST"
  /\ response.status = 200
  /\ \E row \in response.data : \E r \in db["api_keys"] :
        /\ r.id = row.id
        /\ r.id > InitialSeq["api_keys"]
        /\ r.type = "organization"
        /\ r.organization_id = 2
        /\ request.body["organization_id"] = 2

\* C21: a session-authenticated request of the api-keys endpoint adds or changes a
\* key record only if the requester is an administrator and the record is of the
\* requester's organization, and changes no other table; the list holds exactly the
\* keys of the requester's organization; a revocation naming a key of another
\* organization or a master key changes nothing; a requester who is no
\* administrator is answered 403 and nothing changes
C21_KeyManagementConfined ==
  [][ (request'.kind = "api-keys" /\ ~StartsWithAk(request'.auth))
      => /\ \A t \in Tables \ {"api_keys"} : db'[t] = db[t]
         /\ \A k \in (db'["api_keys"] \ db["api_keys"]) \cup (db["api_keys"] \ db'["api_keys"]) :
               \E p \in Requester(db, request') :
                  p.administrator /\ k.organization_id = p.organization_id
         /\ \A p \in Requester(db, request') :
               /\ ~p.administrator => (response'.status = 403 /\ db' = db)
               /\ (p.administrator /\ request'.method = "GET") =>
                     {r.id : r \in response'.data}
                        = {k.id : k \in {q \in db["api_keys"] :
                                           q.organization_id = p.organization_id}}
               /\ (p.administrator /\ request'.method = "DELETE") =>
                     \A k \in db["api_keys"] :
                        (k.id = request'.body["id"]
                           /\ k.organization_id # p.organization_id) => db' = db
         /\ Requester(db, request') = {} => (response'.status = 401 /\ db' = db) ]_vars

\* C21 witness: the administrator of organization 1 asked to revoke the key of
\* organization 2, which is still unrevoked, while the key of organization 1 it
\* asked to revoke before is revoked
C21_Witness ==
  /\ request.kind = "api-keys"
  /\ request.auth = Jwt(1)
  /\ request.method = "DELETE"
  /\ request.body["id"] = 2
  /\ response.status = 200
  /\ \E k \in db["api_keys"] : k.id = 2 /\ k.organization_id = 2 /\ IsNull(k.revoked_at)
  /\ \E k \in db["api_keys"] : k.id = 1 /\ k.organization_id = 1 /\ ~IsNull(k.revoked_at)

\* C22: SELECT get_user_organization_id() returns NULL whenever app.api_key_is_master
\* is 'true', whatever the organization variable and the JWT subject are; otherwise
\* the number written in app.api_key_organization_id when that is set and not
\* empty; otherwise the organization_id of the principal whose user_id is the JWT
\* subject (NULL when there is none), which is the case again after the API-key
\* variables were cleared
C22_ResolverPriority ==
  (request.kind = "session" /\ request.statement = "select")
    => LET ctx == request.ctx
           principals == {p \in db["sales"] : p.user_id = ctx.uid}
       IN \E org_id \in response.data :
            /\ response.data = {org_id}
            /\ IF ctx.api_key_is_master = "true" THEN org_id = NULL
               ELSE IF ctx.api_key_organization_id \notin {Unset, ""}
               THEN org_id \in Orgs /\ BigintToText(org_id) = ctx.api_key_organization_id
               ELSE IF principals = {} THEN org_id = NULL
               ELSE \E p \in principals : org_id = p.organization_id

\* C22 witness: with the master variable 'true', the variable
\* of organization 1 and the subject of organization 2's administrator, the
\* resolver returns NULL
C22_Witness ==
  /\ request.kind = "session"
  /\ request.statement = "select"
  /\ request.ctx.uid = UserOf(2)
  /\ request.ctx.api_key_is_master = "true"
  /\ request.ctx.api_key_organization_id = BigintToText(1)
  /\ response.data = {NULL}

\* C23: every row of companies_summary and contacts_summary counts only deals,
\* contacts and tasks of the base row's organization (all of them that refer to the
\* base row, in master scope), and carries a company_name only of a company of the
\* contact's organization; a scope that is not master sees only base rows of its
\* own organization
C23_ViewsTenantAware ==
  request.kind = "view"
    => \A v \in response.data :
         LET own(t, col) == {x \in db[t] : x[col] = v.id /\ x.organization_id = v.organization_id}
         IN /\ ~is_master_api_key(request.ctx) =>
                  v.organization_id = get_user_organization_id(db, request.ctx)
            /\ request.view = "companies_summary" =>
                  /\ v.nb_deals = Cardinality(own("deals", "company_id"))
                  /\ v.nb_contacts = Cardinality(own("contacts", "company_id"))
            /\ request.view = "contacts_summary" =>
                  /\ v.nb_tasks = Cardinality(own("tasks", "contact_id"))
                  /\ LET companies == {c \in db["companies"] :
                                         /\ c.id = v.company_id
                                         /\ c.organization_id = v.organization_id}
                     IN IF companies = {} THEN v.company_name = Unset
                        ELSE \E c \in companies : v.company_name = c.name

\* C23 witness: in master scope the company of organization 1 is listed with no
\* contact although a contact of organization 2 refers to it
C23_Witness ==
  /\ request.kind = "view"
  /\ request.ctx = MasterCtx
  /\ request.view = "companies_summary"
  /\ \E v \in response.data :
        /\ v.organization_id = 1
        /\ v.nb_contacts = 0
        /\ \E x \in db["contacts"] : x.company_id = v.id /\ x.organization_id = 2

\* C24: a gateway GET answered 200 returns exactly the rows of the resource within
\* the scope of the key that match every query parameter other than resource
C24_QueryFilters ==
  [][ ( /\ request'.kind = "gateway"
        /\ request'.operation = "GET"
        /\ response'.status = 200 )
      => response'.data =
           {r \in db'[request'.resource] :
              /\ request'.validation.type = "organization" =>
                    r.organization_id = request'.validation.organizationId
              /\ \A c \in DOMAIN request'.params : r[c] = request'.params[c]} ]_vars

\* C25: the handling of a gateway request leaves the limiter entry of every other
\* key digest, and the decision the limiter would take for it, as they were; a
\* request answered 429 leaves the whole limiter, the entry of its own key
\* included, unchanged
C25_LimiterFrame ==
  [][ (now' = now /\ request'.kind = "gateway")
      => LET keyHash == hashApiKey(request'.auth)
         IN /\ \A other \in (DOMAIN rateLimitMap' \cup DOMAIN rateLimitMap) \ {keyHash} :
                  /\ other \in DOMAIN rateLimitMap
                  /\ other \in DOMAIN rateLimitMap'
                  /\ rateLimitMap'[other] = rateLimitMap[other]
                  /\ (rateLimitMap'[other].count >= RATE_LIMIT /\ now <= rateLimitMap'[other].resetAt)
                       = (rateLimitMap[other].count >= RATE_LIMIT /\ now <= rateLimitMap[other].resetAt)
            /\ response'.status = 429 => rateLimitMap' = rateLimitMap
            /\ response'.status = 401 => rateLimitMap' = rateLimitMap ]_vars

\* C25 witness: the read-only key of organization 1 is admitted with its own count
\* while the other key of organization 1 stays turned away at count 100
C25_Witness ==
  /\ request.kind = "gateway"
  /\ request.auth = ReadOnlyKey
  /\ response.status = 200
  /\ rateLimitMap[hashApiKey(ReadOnlyKey)].count = 2
  /\ hashApiKey(OrgKey(1)) \in DOMAIN window
  /\ window[hashApiKey(OrgKey(1))].nth > RATE_LIMIT
  /\ rateLimitMap[hashApiKey(OrgKey(1))].count = RATE_LIMIT
  /\ now <= rateLimitMap[hashApiKey(OrgKey(1))].resetAt

\* C26: a key produced by generateApiKey is the prefix of its family followed by
\* the hex rendering of all the random bytes drawn, which are at least 32: two hex
\* digits for each byte
C26_KeyFormat ==
  request.kind = "generateApiKey"
    => \A key \in response.data :
         /\ key.prefix = IF request.type = "master" THEN MasterPrefix ELSE OrgPrefix
         /\ Len(request.randomBytes) >= 32
         /\ Len(key.secret) = 2 * Len(request.randomBytes)
         /\ \A i \in 1..Len(request.randomBytes) :
               /\ key.secret[2 * i - 1] = HexDigits[(request.randomBytes[i] \div 16) + 1]
               /\ key.secret[2 * i] = HexDigits[(request.randomBytes[i] % 16) + 1]

\* C27: when no master key is presented, no step adds a key record of type master,
\* no step changes the type or the organization_id of a key record that exists, and
\* no gateway request is dispatched as a master key
C27_NoEscalation ==
  [][ /\ \A r2 \in db'["api_keys"] :
           r2.type = "master" => \E r \in db["api_keys"] : r.id = r2.id
      /\ \A r \in db["api_keys"] : \A r2 \in db'["api_keys"] :
           r2.id = r.id => r2.type = r.type /\ r2.organization_id = r.organization_id
      /\ request'.kind = "gateway"
           => ~(request'.validation.isValid /\ request'.validation.type = "master") ]_vars

\* C28: when identities are created at once with neither organization_id nor
\* organization_name, in every state at most one organization has been created by
\* the first-user branch, and such a signup that ends when a principal exists is
\* turned down
C28_SingleBootstrap ==
  /\ Cardinality(db["organizations"]) <= 1
  /\ ( /\ request.kind = "signup"
       /\ IsNull(org_id_from(request.meta))
       /\ Cardinality(db["sales"]) > 1 )
       => response.status = 500

\* C29: whatever the order in which the handlers of the requests of one key run on
\* from their awaits, the count of the key's limiter entry is the number of requests
\* of the key admitted since the window of the entry opened, and it is at most 100
C29_LimiterAtomicity ==
  \A keyHash \in DOMAIN rateLimitMap :
     LET entry == rateLimitMap[keyHash]
         a == admitted[keyHash]
     IN /\ entry.count <= RATE_LIMIT
        /\ SumOver(a, {i \in DOMAIN a : i >= entry.resetAt - RATE_WINDOW}) = entry.count

\* C29 witness: two handlers began with the same key before either reached the
\* limiter; the second was turned away at count 100 while the first still waits
C29_Witness ==
  /\ request.kind = "gateway"
  /\ request.auth = OrgKey(1)
  /\ request.handler = 2
  /\ response.status = 429
  /\ rateLimitMap[hashApiKey(OrgKey(1))].count = RATE_LIMIT
  /\ 1 \in DOMAIN inflight
  /\ inflight[1].auth = OrgKey(1)

\* C30: after every step every identity has exactly one principal, and that principal
\* is of an organization that exists; an identity creation that fails leaves the
\* database as it was, with no identity, principal or organization added
C30_IdentityWithPrincipal ==
  [][ /\ \A u \in db'["auth.users"] :
           LET principals == {p \in db'["sales"] : p.user_id = UserOf(u.id)}
           IN /\ Cardinality(principals) = 1
              /\ \A p \in principals : p.organization_id \in OrgIds(db')
      /\ (SignUpRequest(request') /\ response'.status # 200) => db' = db ]_vars

====
